---- MODULE Spec2Model ----
(***************************************************************************)
(* Kenwood TM-D710G / TM-V71A controller: the job queue, the controller    *)
(* worker (Controller.controller), the CAT engine (Cat.update_dictionary,  *)
(* Cat.run_job), the XML-RPC facade (RigXMLRPC) and Controller.stop.       *)
(*                                                                         *)
(* Conventions.  A CAT request "<cmd> <a1>,<a2>,..." is the tuple          *)
(* <<cmd, a1, a2, ...>>; a reply tuple is what Cat.query returns: the      *)
(* empty tuple <<>> when nothing was read, <<"?">> for the radio's          *)
(* unsupported-command answer.  Python's None is the string "None".        *)
(* Python indexing is 0-based: Idx(t, i) is t[i].                          *)
(***************************************************************************)
EXTENDS Naturals, Integers, Sequences, FiniteSets, TLC

\* ------------------------------------------------------------- bounds
\* jobs put on the command queue in one behaviour
MaxJobs == 2
\* exchanges the radio leaves unanswered or answers with "?" in one behaviour
MaxFaults == 1

\* ------------------------------------------------------ lookup tables
\* common710.py: the 'map' side of each dictionary
None == "None"

SIDE_DICT_map == "0" :> "A" @@ "1" :> "B"

SIDE_DICT_inv == "A" :> "0" @@ "B" :> "1"

MODE_DICT_map == "0" :> "VFO" @@ "1" :> "MR" @@ "2" :> "CALL" @@ "3" :> "WX"

MODULATION_DICT_map == "0" :> "FM" @@ "1" :> "NFM" @@ "2" :> "AM"

POWER_DICT_map == "0" :> "H" @@ "1" :> "M" @@ "2" :> "L"

STATE_DICT_map == "0" :> "OFF" @@ "1" :> "ON"

STEP_DICT_map ==
    "0" :> "5" @@ "1" :> "6.25" @@ "2" :> "8.33" @@ "3" :> "10" @@
    "4" :> "12.5" @@ "5" :> "15" @@ "6" :> "20" @@ "7" :> "25" @@
    "8" :> "30" @@ "9" :> "50" @@ "A" :> "100"

SHIFT_DICT_map == "0" :> "S" @@ "1" :> "+" @@ "2" :> "-"

DATA_SPEED_DICT_map == "0" :> "1200" @@ "1" :> "9600"

TIMEOUT_DICT_map == "0" :> "3" @@ "1" :> "5" @@ "2" :> "10"

REVERSE_DICT_map == "0" :> " " @@ "1" :> "R"

BACKLIGHT_DICT_map == "0" :> "amber" @@ "1" :> "green"

LOCK_DICT_map == STATE_DICT_map

MENU_backlight_values == "amber" :> "0" @@ "green" :> "1"

pll_frequency_dict ==
    "00" :> "67" @@ "01" :> "69.3" @@ "02" :> "71.9" @@ "03" :> "74.4" @@ "04" :> "77" @@ "05" :> "79.7" @@
    "06" :> "82.5" @@ "07" :> "85.4" @@ "08" :> "88.5" @@ "09" :> "91.5" @@ "10" :> "94.8" @@ "11" :> "97.4" @@
    "12" :> "100" @@ "13" :> "103.5" @@ "14" :> "107.2" @@ "15" :> "110.9" @@ "16" :> "114.8" @@ "17" :> "118.8" @@
    "18" :> "123" @@ "19" :> "127.3" @@ "20" :> "131.8" @@ "21" :> "136.5" @@ "22" :> "141.3" @@ "23" :> "146.2" @@
    "24" :> "151.4" @@ "25" :> "156.7" @@ "26" :> "162.2" @@ "27" :> "167.9" @@ "28" :> "173.8" @@ "29" :> "179.9" @@
    "30" :> "186.2" @@ "31" :> "192.8" @@ "32" :> "203.5" @@ "33" :> "240.7" @@ "34" :> "210.7" @@ "35" :> "218.1" @@
    "36" :> "225.7" @@ "37" :> "229.1" @@ "38" :> "233.6" @@ "39" :> "241.8" @@ "40" :> "250.3" @@ "41" :> "254.1"

dcs_frequency_dict ==
    "000" :> "23" @@ "001" :> "25" @@ "002" :> "26" @@ "003" :> "31" @@ "004" :> "32" @@ "005" :> "36" @@
    "006" :> "43" @@ "007" :> "47" @@ "008" :> "51" @@ "009" :> "53" @@ "010" :> "54" @@ "011" :> "65" @@
    "012" :> "71" @@ "013" :> "72" @@ "014" :> "73" @@ "015" :> "74" @@ "016" :> "114" @@ "017" :> "115" @@
    "018" :> "116" @@ "019" :> "122" @@ "020" :> "125" @@ "021" :> "131" @@ "022" :> "132" @@ "023" :> "134" @@
    "024" :> "143" @@ "025" :> "145" @@ "026" :> "152" @@ "027" :> "155" @@ "028" :> "156" @@ "029" :> "162" @@
    "030" :> "165" @@ "031" :> "172" @@ "032" :> "174" @@ "033" :> "205" @@ "034" :> "212" @@ "035" :> "223" @@
    "036" :> "225" @@ "037" :> "226" @@ "038" :> "243" @@ "039" :> "244" @@ "040" :> "245" @@ "041" :> "246" @@
    "042" :> "251" @@ "043" :> "252" @@ "044" :> "255" @@ "045" :> "261" @@ "046" :> "263" @@ "047" :> "265" @@
    "048" :> "266" @@ "049" :> "271" @@ "050" :> "274" @@ "051" :> "306" @@ "052" :> "311" @@ "053" :> "315" @@
    "054" :> "325" @@ "055" :> "331" @@ "056" :> "332" @@ "057" :> "343" @@ "058" :> "346" @@ "059" :> "351" @@
    "060" :> "356" @@ "061" :> "364" @@ "062" :> "365" @@ "063" :> "371" @@ "064" :> "411" @@ "065" :> "412" @@
    "066" :> "413" @@ "067" :> "423" @@ "068" :> "431" @@ "069" :> "432" @@ "070" :> "445" @@ "071" :> "446" @@
    "072" :> "452" @@ "073" :> "454" @@ "074" :> "455" @@ "075" :> "462" @@ "076" :> "464" @@ "077" :> "465" @@
    "078" :> "466" @@ "079" :> "503" @@ "080" :> "506" @@ "081" :> "516" @@ "082" :> "523" @@ "083" :> "526" @@
    "084" :> "532" @@ "085" :> "546" @@ "086" :> "565" @@ "087" :> "606" @@ "088" :> "612" @@ "089" :> "624" @@
    "090" :> "627" @@ "091" :> "631" @@ "092" :> "632" @@ "093" :> "654" @@ "094" :> "662" @@ "095" :> "664" @@
    "096" :> "703" @@ "097" :> "712" @@ "098" :> "723" @@ "099" :> "731" @@ "100" :> "732" @@ "101" :> "734" @@
    "102" :> "743" @@ "103" :> "754"

\* ------------------------------------------------------------ helpers
\* Python's t[i] and "i is a valid index of t"
Idx(t, i) == t[i + 1]

HasIdx(t, i) == i + 1 <= Len(t)

\* t with t[i] replaced by v (mu_list[38] = job[1])
SetIdx(t, i, v) == [t EXCEPT ![i + 1] = v]

\* TONE_FREQUENCY_DICT[t]['map'] for t in Tone, CTCSS, DCS
TONE_FREQUENCY_DICT_map(t) ==
    IF t = "DCS" THEN dcs_frequency_dict ELSE pll_frequency_dict

\* "{:.3f}".format(int(f) / 1000000) on the frequency fields the radio below holds
FrequencyText ==
    "-009500000" :> "-9.500" @@ "-004500000" :> "-4.500" @@
    "-000700000" :> "-0.700" @@ "-000100000" :> "-0.100" @@
    "0000000000" :> "0.000" @@ "0000500000" :> "0.500" @@ "0000600000" :> "0.600" @@
    "0001100000" :> "1.100" @@ "0001700000" :> "1.700" @@ "0005000000" :> "5.000" @@
    "0005500000" :> "5.500" @@ "0010500000" :> "10.500" @@
    "0117990000" :> "117.990" @@ "0117995000" :> "117.995" @@
    "0118000000" :> "118.000" @@ "0118005000" :> "118.005" @@
    "0118010000" :> "118.010" @@ "0118015000" :> "118.015" @@
    "0118020000" :> "118.020" @@ "0128002999" :> "128.003" @@
    "0135950000" :> "135.950" @@ "0135975000" :> "135.975" @@
    "0136000000" :> "136.000" @@ "0136025000" :> "136.025" @@
    "0136050000" :> "136.050" @@ "0136075000" :> "136.075" @@
    "0136100000" :> "136.100" @@ "0136520000" :> "136.520" @@
    "0141520000" :> "141.520" @@ "0145320000" :> "145.320" @@
    "0145920000" :> "145.920" @@ "0146520000" :> "146.520" @@
    "0147120000" :> "147.120" @@ "0147720000" :> "147.720" @@
    "0151520000" :> "151.520" @@ "0156520000" :> "156.520" @@
    "0445925000" :> "445.925" @@ "0445950000" :> "445.950" @@
    "0445975000" :> "445.975" @@ "0446000000" :> "446.000" @@
    "0446025000" :> "446.025" @@ "0446050000" :> "446.050" @@
    "0446075000" :> "446.075" @@ "0523980000" :> "523.980" @@
    "0523985000" :> "523.985" @@ "0523990000" :> "523.990" @@
    "0523995000" :> "523.995" @@ "0524000000" :> "524.000" @@
    "0524005000" :> "524.005" @@ "0524010000" :> "524.010" @@
    "0600000000" :> "600.000" @@ "1299900000" :> "1299.900" @@
    "1299925000" :> "1299.925" @@ "1299950000" :> "1299.950" @@
    "1299975000" :> "1299.975" @@ "1300000000" :> "1300.000" @@
    "1300025000" :> "1300.025" @@ "1300050000" :> "1300.050"

\* f"{n:010d}" on the frequencies in Hz that occur below
Format010d ==
    (-9500000) :> "-009500000" @@ (-4500000) :> "-004500000" @@
    (-700000) :> "-000700000" @@ (-100000) :> "-000100000" @@ 0 :> "0000000000" @@
    500000 :> "0000500000" @@ 600000 :> "0000600000" @@ 1100000 :> "0001100000" @@
    1700000 :> "0001700000" @@ 5000000 :> "0005000000" @@ 5500000 :> "0005500000" @@
    10500000 :> "0010500000" @@ 117990000 :> "0117990000" @@
    117995000 :> "0117995000" @@ 118000000 :> "0118000000" @@
    118005000 :> "0118005000" @@ 118010000 :> "0118010000" @@
    118015000 :> "0118015000" @@ 118020000 :> "0118020000" @@
    128002999 :> "0128002999" @@ 135950000 :> "0135950000" @@
    135975000 :> "0135975000" @@ 136000000 :> "0136000000" @@
    136025000 :> "0136025000" @@ 136050000 :> "0136050000" @@
    136075000 :> "0136075000" @@ 136100000 :> "0136100000" @@
    136520000 :> "0136520000" @@ 141520000 :> "0141520000" @@
    145320000 :> "0145320000" @@ 145920000 :> "0145920000" @@
    146520000 :> "0146520000" @@ 147120000 :> "0147120000" @@
    147720000 :> "0147720000" @@ 151520000 :> "0151520000" @@
    156520000 :> "0156520000" @@ 445925000 :> "0445925000" @@
    445950000 :> "0445950000" @@ 445975000 :> "0445975000" @@
    446000000 :> "0446000000" @@ 446025000 :> "0446025000" @@
    446050000 :> "0446050000" @@ 446075000 :> "0446075000" @@
    523980000 :> "0523980000" @@ 523985000 :> "0523985000" @@
    523990000 :> "0523990000" @@ 523995000 :> "0523995000" @@
    524000000 :> "0524000000" @@ 524005000 :> "0524005000" @@
    524010000 :> "0524010000" @@ 600000000 :> "0600000000" @@
    1299900000 :> "1299900000" @@ 1299925000 :> "1299925000" @@
    1299950000 :> "1299950000" @@ 1299975000 :> "1299975000" @@
    1300000000 :> "1300000000" @@ 1300025000 :> "1300025000" @@
    1300050000 :> "1300050000"

\* the offsets as the radio holds them, eight digits
Format08d ==
    0 :> "00000000" @@ 600000 :> "00600000" @@ 5000000 :> "05000000"

\* int(field): the number a decimal field stands for; ValueError otherwise
IntOf(field) ==
    IF \E n \in DOMAIN Format010d : Format010d[n] = field
        THEN [exc |-> "", v |-> CHOOSE n \in DOMAIN Format010d : Format010d[n] = field]
    ELSE IF \E n \in DOMAIN Format08d : Format08d[n] = field
        THEN [exc |-> "", v |-> CHOOSE n \in DOMAIN Format08d : Format08d[n] = field]
    ELSE [exc |-> "ValueError", v |-> 0]

\* int(STEP_DICT['map'][k]) * 1000: the steps that are whole numbers of kHz;
\* int() of "6.25", "8.33" and "12.5" raises ValueError
StepHz ==
    "5" :> 5000 @@ "10" :> 10000 @@ "15" :> 15000 @@ "20" :> 20000 @@
    "25" :> 25000 @@ "30" :> 30000 @@ "50" :> 50000 @@ "100" :> 100000

\* int(n) on the memory numbers the radio below holds, as decimal text
ChannelInt == "010" :> "10" @@ "020" :> "20"

\* ------------------------------------------------------------- state
VARIABLES
    radio,          \* what the transceiver holds (answers of BC, VM, MR, FO, MN, PC, MU, LK)
    faults,         \* exchanges the radio has failed so far
    outstanding,    \* requests written to the serial port whose reply was not read yet
    serial_open,    \* o_serial is open
    state,          \* Cat.state
    previous_rig_dictionary,
    cmd_queue,      \* Controller.cmd_queue
    reply_queue,    \* Cat.reply_queue
    unfinished,     \* reply_queue.unfinished_tasks
    controller_running,
    pc,             \* position of the main thread and of the controller thread
    w,              \* locals of the controller thread
    xmlrpc,         \* the XML-RPC server: its thread and socketserver's shutdown flags
    rpc,            \* the XML-RPC handler threads
    ptt_active,     \* CatPtt.ptt_active
    gui,            \* Cat.gui: the Tk root the prompts of Cat.ask are shown on
    ptt,            \* the PTT driver: how it is made at start-up, and the object made
    hist            \* history: the jobs put, begun, finished; the refreshes committed;
                    \* the jobs that wrote a request; the jobs answered "?"; the
                    \* jobs with an exchange that got no reply; the radio at the start

vars == <<radio, faults, outstanding, serial_open, state, previous_rig_dictionary,
          cmd_queue, reply_queue, unfinished, controller_running, pc, w, xmlrpc,
          rpc, ptt_active, gui, ptt, hist>>

Sides == {"0", "1"}

\* the two XML-RPC clients (ThreadingMixIn: one handler thread per request)
Callers == {"c1", "c2"}

\* the client that also polls the state (rig.get_mode, rig.get_vfo, ...)
Readers == {"c1"}

\* Cat.__init__: every field None
SideState0 ==
    [mode |-> None, ch_name |-> None, ch_number |-> None, frequency |-> None,
     shift |-> None, reverse |-> None, tone |-> None, tone_frequency |-> None,
     modulation |-> None, power |-> None, ptt |-> None, ctrl |-> None,
     data |-> None, step |-> None]

State0 ==
    [A |-> SideState0, B |-> SideState0, backlight |-> None, vhf_aip |-> None,
     uhf_aip |-> None, timeout |-> None, lock |-> None, speed |-> None,
     data_side |-> None]

\* the 41-field menu record, MU first
MU0 == [i \in 1..42 |-> IF i = 1 THEN "MU" ELSE "0"]

\* the channel record of each side: FO, side, frequency, step, shift, reverse,
\* tone, CTCSS, DCS, tone freq, CTCSS freq, DCS freq, offset, modulation
FO0 ==
    "0" :> <<"FO", "0", "0146520000", "0", "0", "0", "0", "1", "0",
             "08", "08", "000", "00600000", "0">> @@
    "1" :> <<"FO", "1", "0446000000", "7", "0", "0", "0", "0", "0",
             "08", "08", "000", "05000000", "0">>

\* the memory record of a channel: ME, channel, then the twelve fields of the
\* channel record, the transmit frequency, its step and the lockout
ME0 ==
    "010" :> <<"ME", "010", "0146520000", "0", "0", "0", "0", "1", "0",
               "08", "08", "000", "00600000", "0", "0000000000", "0", "0">> @@
    "020" :> <<"ME", "020", "0446000000", "7", "0", "0", "0", "0", "0",
               "08", "08", "000", "05000000", "0", "0000000000", "0", "0">>

\* the call channel of each side
CC0 ==
    "0" :> <<"CC", "0", "0146520000", "0", "0", "0", "0", "0", "0",
             "08", "08", "000", "00600000", "0">> @@
    "1" :> <<"CC", "1", "0446000000", "7", "0", "0", "0", "0", "0",
             "08", "08", "000", "05000000", "0">>

Radio0(ctrl, modeA) ==
    [bc |-> <<ctrl, "0">>,
     vm |-> ("0" :> modeA @@ "1" :> "0"),
     mr |-> ("0" :> "010" @@ "1" :> "020"),
     mn |-> ("010" :> "SIMPLX" @@ "020" :> "RPT"),
     fo |-> FO0,
     me |-> ME0,
     cc |-> CC0,
     pc |-> ("0" :> "0" @@ "1" :> "2"),
     mu |-> MU0,
     lk |-> "0",
     tx |-> "RX"]

\* ------------------------------------------------------- the texts
\* A text (a line on the serial port, a string handed to a client) is the
\* sequence of its separators " ", "," and "\r" and of the runs of other
\* characters between them: "MN 010,RPT\r" is <<"MN", " ", "010", ",", "RPT",
\* "\r">>.
\* the fields of the radio that have spaces in them, as their words
Words == "MY RPT" :> <<"MY", "RPT">>

\* sep.join(parts): the texts parts with sep between them
RECURSIVE Joined(_, _)
Joined(parts, sep) ==
    LET join[p \in {parts}] ==
            IF p = <<>> THEN <<>>
            ELSE IF Len(p) = 1 THEN p[1]
            ELSE p[1] \o <<sep>> \o Joined(Tail(p), sep)
    IN  join[parts]

\* the text of a string
FieldText(f) ==
    IF f = "" THEN <<>>
    ELSE IF f \in DOMAIN Words
        THEN Joined([i \in DOMAIN Words[f] |-> <<Words[f][i]>>], " ")
    ELSE <<f>>

\* the line the radio sends for the reply <<cmd, f1, ..., fn>>: the command,
\* a space, the fields with commas between them, a carriage return; nothing
\* when the radio does not answer
ReplyLine(reply) ==
    IF reply = <<>> THEN <<>>
    ELSE IF Len(reply) = 1 THEN FieldText(reply[1]) \o <<"\r">>
    ELSE FieldText(reply[1]) \o <<" ">>
         \o Joined([i \in 1..Len(reply) - 1 |-> FieldText(reply[i + 1])], ",")
         \o <<"\r">>

\* re.sub(' ', ',', text): every space becomes a comma
re_sub(text) == [i \in DOMAIN text |-> IF text[i] = " " THEN "," ELSE text[i]]

\* text.split(','): the strings between the commas, '' where there is none
RECURSIVE split(_)
split(text) ==
    LET cut[t \in {text}] ==
            IF t = <<>> THEN <<"">>
            ELSE IF Head(t) = "," THEN <<"">> \o split(Tail(t))
            ELSE IF Len(t) = 1 THEN <<Head(t)>>
            ELSE <<Head(t)>> \o split(Tail(Tail(t)))
    IN  cut[text]

\* Cat.query on the line read: answer = re.sub(' ', ',', sio.readline());
\* tuple(answer[:-1].split(',')) if answer else ()
query(line) ==
    LET answer == re_sub(line)
    IN  IF answer = <<>> THEN <<>>
        ELSE split(SubSeq(answer, 1, Len(answer) - 1))

\* ------------------------------------------------------- the radio
\* The transceiver's answer to a request it understands, and what it holds
\* afterwards.  A mode change moves CTRL to the side that changes mode.  A
\* channel, memory or call record that is written is stored as sent.
RadioAnswer(r, req) ==
    LET cmd == req[1]
        n == Len(req)
        side == n >= 2 /\ req[2] \in Sides
    IN  CASE cmd = "BC" /\ n = 1 ->
                [reply |-> <<"BC">> \o r.bc, radio |-> r]
          [] cmd = "BC" /\ n = 3 /\ side /\ req[3] \in Sides ->
                [reply |-> req, radio |-> [r EXCEPT !.bc = <<req[2], req[3]>>]]
          [] cmd = "VM" /\ n = 2 /\ side ->
                [reply |-> <<"VM", req[2], r.vm[req[2]]>>, radio |-> r]
          [] cmd = "VM" /\ n = 3 /\ side /\ req[3] \in DOMAIN MODE_DICT_map ->
                [reply |-> req,
                 radio |-> [r EXCEPT !.vm[req[2]] = req[3], !.bc[1] = req[2]]]
          [] cmd = "MR" /\ n = 2 /\ side ->
                [reply |-> <<"MR", req[2], r.mr[req[2]]>>, radio |-> r]
          [] cmd = "MR" /\ n = 3 /\ side ->
                \* the memory channel is recalled; an empty channel: N
                IF r.vm[req[2]] = "1" /\ req[3] \in DOMAIN r.me
                    THEN [reply |-> req, radio |-> [r EXCEPT !.mr[req[2]] = req[3]]]
                    ELSE [reply |-> <<"N">>, radio |-> r]
          [] cmd = "FO" /\ n = 2 /\ side ->
                [reply |-> IF r.vm[req[2]] = "1" /\ r.mr[req[2]] \in DOMAIN r.me
                              THEN <<"FO", req[2]>> \o SubSeq(r.me[r.mr[req[2]]], 3, 14)
                              ELSE r.fo[req[2]],
                 radio |-> r]
          [] cmd = "FO" /\ n = 14 /\ side ->
                [reply |-> req, radio |-> [r EXCEPT !.fo[req[2]] = req]]
          [] cmd = "ME" /\ n = 2 ->
                IF req[2] \in DOMAIN r.me
                    THEN [reply |-> r.me[req[2]], radio |-> r]
                    ELSE [reply |-> <<"N">>, radio |-> r]
          [] cmd = "ME" /\ n = 17 /\ req[2] \in DOMAIN r.me ->
                [reply |-> req, radio |-> [r EXCEPT !.me[req[2]] = req]]
          [] cmd = "CC" /\ n = 2 /\ side ->
                [reply |-> r.cc[req[2]], radio |-> r]
          [] cmd = "CC" /\ n = 14 /\ side ->
                [reply |-> req, radio |-> [r EXCEPT !.cc[req[2]] = req]]
          [] cmd = "MN" /\ n = 2 /\ req[2] \in DOMAIN r.mn ->
                [reply |-> <<"MN", req[2], r.mn[req[2]]>>, radio |-> r]
          [] cmd = "PC" /\ n = 2 /\ side ->
                [reply |-> <<"PC", req[2], r.pc[req[2]]>>, radio |-> r]
          [] cmd = "PC" /\ n = 3 /\ side /\ req[3] \in DOMAIN POWER_DICT_map ->
                [reply |-> req, radio |-> [r EXCEPT !.pc[req[2]] = req[3]]]
          [] cmd = "MU" /\ n = 1 ->
                [reply |-> r.mu, radio |-> r]
          [] cmd = "MU" /\ n = 42 ->
                [reply |-> req, radio |-> [r EXCEPT !.mu = req]]
          [] cmd = "LK" /\ n = 1 ->
                [reply |-> <<"LK", r.lk>>, radio |-> r]
          [] cmd = "LK" /\ n = 2 /\ req[2] \in {"0", "1"} ->
                [reply |-> req, radio |-> [r EXCEPT !.lk = req[2]]]
          [] cmd \in {"UP", "DW"} /\ n = 1 ->
                [reply |-> req, radio |-> r]
          [] cmd \in {"TX", "RX"} /\ n = 1 ->
                [reply |-> req, radio |-> [r EXCEPT !.tx = cmd]]
          [] cmd = "ID" /\ n = 1 ->
                [reply |-> <<"ID", "TM-D710G">>, radio |-> r]
          [] OTHER ->
                [reply |-> <<"?">>, radio |-> r]

\* Every outcome of one exchange: the answer; or, while the fault budget
\* lasts, nothing read before the timeout (Cat.query returns ()), or "?".
Exchange(r, req, budget) ==
    {RadioAnswer(r, req)} \cup
    (IF budget > 0
        THEN {[reply |-> <<>>, radio |-> r], [reply |-> <<"?">>, radio |-> r]}
        ELSE {})

\* ------------------------------------------- Cat.update_dictionary
\* d[result[i]]: IndexError when result is too short, KeyError when the
\* field is no key of d
Lookup(d, result, i) ==
    IF ~HasIdx(result, i) THEN [exc |-> "IndexError", v |-> ""]
    ELSE IF Idx(result, i) \notin DOMAIN d THEN [exc |-> "KeyError", v |-> ""]
    ELSE [exc |-> "", v |-> d[Idx(result, i)]]

\* int(result[i]) (then formatted by d): ValueError when it is no number
Number(d, result, i) ==
    IF ~HasIdx(result, i) THEN [exc |-> "IndexError", v |-> ""]
    ELSE IF Idx(result, i) \notin DOMAIN d THEN [exc |-> "ValueError", v |-> ""]
    ELSE [exc |-> "", v |-> d[Idx(result, i)]]

\* (a missing field compared as if it were there)
Cond_padded(result, i, key, yes, no) ==
    [exc |-> "", v |-> IF HasIdx(result, i) /\ Idx(result, i) = key THEN yes ELSE no]

\* (yes whatever the field holds)
Cond_always(result, i, key, yes, no) == [exc |-> "", v |-> yes]

\* yes if result[i] == key else no
Cond(result, i, key, yes, no) ==
    IF ~HasIdx(result, i) THEN [exc |-> "IndexError", v |-> ""]
    ELSE [exc |-> "", v |-> IF Idx(result, i) = key THEN yes ELSE no]

Value(x) == [exc |-> "", v |-> x]

\* self.state[...] = v, on a side (path of two keys) or global (one key)
Put(st, path, v) ==
    IF Len(path) = 2 THEN [st EXCEPT ![path[1]][path[2]] = v]
    ELSE [st EXCEPT ![path[1]] = v]

\* The assignments of one try block, in order: each is evaluated and then
\* stored; the first that raises ends the block with the earlier ones stored.
RECURSIVE ApplyWrites(_, _)
ApplyWrites(st, ws) ==
    IF ws = <<>> THEN [exc |-> "", st |-> st]
    ELSE LET h == Head(ws)
         IN  IF h[2].exc # "" THEN [exc |-> h[2].exc, st |-> st]
             ELSE ApplyWrites(Put(st, h[1], h[2].v), Tail(ws))

\* (a decoder that looks at the DCS bit first)
tone_decode_dcs_first(result) ==
    LET b8 == Lookup(STATE_DICT_map, result, 8)
        b6 == Lookup(STATE_DICT_map, result, 6)
        Got(t, f) == [exc |-> f.exc, t |-> t, tf |-> f.v]
    IN  IF b8.exc # "" THEN Got("", b8)
        ELSE IF b8.v = "ON"
            THEN Got("DCS", Lookup(TONE_FREQUENCY_DICT_map("DCS"), result, 11))
        ELSE IF b6.v = "ON"
            THEN Got("Tone", Lookup(TONE_FREQUENCY_DICT_map("Tone"), result, 9))
        ELSE Got("No Tone", Value(" "))

\* common_elements: the tone type by priority Tone, CTCSS, DCS, else No Tone
tone_decode(result) ==
    LET b6 == Lookup(STATE_DICT_map, result, 6)
        b7 == Lookup(STATE_DICT_map, result, 7)
        b8 == Lookup(STATE_DICT_map, result, 8)
        Got(t, f) == [exc |-> f.exc, t |-> t, tf |-> f.v]
    IN  IF b6.exc # "" THEN Got("", b6)
        ELSE IF b6.v = "ON"
            THEN Got("Tone", Lookup(TONE_FREQUENCY_DICT_map("Tone"), result, 9))
        ELSE IF b7.exc # "" THEN Got("", b7)
        ELSE IF b7.v = "ON"
            THEN Got("CTCSS", Lookup(TONE_FREQUENCY_DICT_map("CTCSS"), result, 10))
        ELSE IF b8.exc # "" THEN Got("", b8)
        ELSE IF b8.v = "ON"
            THEN Got("DCS", Lookup(TONE_FREQUENCY_DICT_map("DCS"), result, 11))
        ELSE Got("No Tone", Value(" "))

common_elements(st, side, result, mode_str) ==
    LET tn == tone_decode(result)
    IN  IF tn.exc # "" THEN [exc |-> tn.exc, st |-> st]
        ELSE ApplyWrites(st,
               << <<<<side, "tone">>, Value(tn.t)>>,
                  <<<<side, "tone_frequency">>, Value(tn.tf)>>,
                  <<<<side, "shift">>, Lookup(SHIFT_DICT_map, result, 4)>>,
                  <<<<side, "reverse">>, Lookup(REVERSE_DICT_map, result, 5)>>,
                  <<<<side, "modulation">>, Lookup(MODULATION_DICT_map, result, 13)>>,
                  <<<<side, "mode">>, Value(mode_str)>>,
                  <<<<side, "step">>, Lookup(STEP_DICT_map, result, 3)>>,
                  <<<<side, "frequency">>, Number(FrequencyText, result, 2)>> >>)

\* The request of each sub-query of the refresh
UdRequest(l) ==
    CASE l.lab = "BC" -> <<"BC">>
      [] l.lab = "VM" -> <<"VM", l.s>>
      [] l.lab = "MR" -> <<"MR", l.s>>
      [] l.lab = "FO" -> <<"FO", l.s>>
      [] l.lab = "MN" -> <<"MN", l.ch_num_raw>>
      [] l.lab = "PC" -> <<"PC", l.s>>
      [] l.lab = "MU" -> <<"MU">>
      [] l.lab = "LK" -> <<"LK">>

\* The locals of the controller thread: the activity (a job, or the refresh),
\* its position lab, the request about to be or just written, and the locals
\* of update_dictionary and run_job.  before and out record the state at the
\* start of the activity and how the activity ended.
Refresh == <<"update_dictionary">>

W0 ==
    [act |-> <<>>, id |-> 0, lab |-> "", req |-> <<>>, s |-> "0",
     mode_str |-> "", ch_num_raw |-> "", saved |-> <<>>, bc |-> <<>>,
     error |-> FALSE, before |-> State0, out |-> "", arg_list |-> <<>>,
     ask_type |-> "", answer |-> "", prompted |-> FALSE, msg |-> ""]

\* update_dictionary after the reply of the sub-query l.lab.  out is "next"
\* (the next sub-query is l.lab, l.req), "return" (self.state returned),
\* "fail" ({} returned) or the exception raised.
UdReply(l, result, st) ==
    LET side == SIDE_DICT_map[l.s]
        Raise(e, st2) == [out |-> e, w |-> l, st |-> st2]
        Goto(lab, l2, st2) ==
            LET l3 == [l2 EXCEPT !.lab = lab]
            IN  [out |-> "next", w |-> [l3 EXCEPT !.req = UdRequest(l3)], st |-> st2]
        Then(a, lab, l2) == IF a.exc # "" THEN Raise(a.exc, a.st) ELSE Goto(lab, l2, a.st)
    IN  IF result = <<>> THEN [out |-> "fail", w |-> l, st |-> st]
        ELSE CASE l.lab = "BC" ->
                    Then(ApplyWrites(st,
                           << <<<<"A", "ctrl">>, Cond(result, 1, "0", "CTRL", "   ")>>,
                              <<<<"B", "ctrl">>, Cond(result, 1, "1", "CTRL", "   ")>>,
                              <<<<"A", "ptt">>, Cond(result, 2, "0", "PTT", "   ")>>,
                              <<<<"B", "ptt">>, Cond(result, 2, "1", "PTT", "   ")>> >>),
                         "VM", [l EXCEPT !.s = "0"])
               [] l.lab = "VM" ->
                    LET m == Lookup(MODE_DICT_map, result, 2)
                    IN  IF m.exc # "" THEN Raise(m.exc, st)
                        ELSE IF m.v = "MR" THEN Goto("MR", l, st)
                        ELSE Goto("FO", [l EXCEPT !.mode_str = m.v], st)
               [] l.lab = "MR" ->
                    IF ~HasIdx(result, 2) THEN Raise("IndexError", st)
                    ELSE Then(ApplyWrites(st,
                                << <<<<side, "ch_number">>, Number(ChannelInt, result, 2)>> >>),
                              "FO",
                              [l EXCEPT !.mode_str = "MR", !.ch_num_raw = Idx(result, 2)])
               [] l.lab = "FO" ->
                    LET a == common_elements(st, side, result, l.mode_str)
                    IN  IF a.exc # "" THEN Raise(a.exc, a.st)
                        ELSE IF l.mode_str = "MR" THEN Goto("MN", l, a.st)
                        ELSE Goto("PC", l,
                                  [a.st EXCEPT ![side].ch_number = "  ",
                                               ![side].ch_name = "      "])
               [] l.lab = "MN" ->
                    IF ~HasIdx(result, 0) THEN Raise("IndexError", st)
                    ELSE IF Idx(result, 0) = "N" THEN Goto("PC", l, st)
                    ELSE IF ~HasIdx(result, 2) THEN Raise("IndexError", st)
                    ELSE Goto("PC", l, [st EXCEPT ![side].ch_name = Idx(result, 2)])
               [] l.lab = "PC" ->
                    Then(ApplyWrites(st,
                           << <<<<side, "power">>, Lookup(POWER_DICT_map, result, 2)>> >>),
                         IF l.s = "0" THEN "VM" ELSE "MU",
                         [l EXCEPT !.s = "1"])
               [] l.lab = "MU" ->
                    IF ~HasIdx(result, 38) THEN Raise("IndexError", st)
                    ELSE LET r38 == Idx(result, 38)
                         IN  Then(ApplyWrites(st,
                                    << <<<<"data_side">>,
                                         Value(IF r38 \in {"0", "1"}
                                                  THEN SIDE_DICT_map[r38] ELSE None)>>,
                                       <<<<"A", "data">>,
                                         Value(IF r38 = "0" THEN "D"
                                               ELSE IF r38 = "2" THEN "D-TX"
                                               ELSE IF r38 = "3" THEN "D-RX" ELSE " ")>>,
                                       <<<<"B", "data">>,
                                         Value(IF r38 = "1" THEN "D"
                                               ELSE IF r38 = "2" THEN "D-RX"
                                               ELSE IF r38 = "3" THEN "D-TX" ELSE " ")>>,
                                       <<<<"speed">>, Lookup(DATA_SPEED_DICT_map, result, 39)>>,
                                       <<<<"timeout">>, Lookup(TIMEOUT_DICT_map, result, 16)>>,
                                       <<<<"vhf_aip">>, Lookup(STATE_DICT_map, result, 11)>>,
                                       <<<<"uhf_aip">>, Lookup(STATE_DICT_map, result, 12)>>,
                                       <<<<"backlight">>, Lookup(BACKLIGHT_DICT_map, result, 28)>> >>),
                                  "LK", l)
               [] l.lab = "LK" ->
                    LET a == ApplyWrites(st,
                               << <<<<"lock">>, Lookup(LOCK_DICT_map, result, 1)>> >>)
                    IN  IF a.exc # "" THEN Raise(a.exc, a.st)
                        ELSE [out |-> "return", w |-> l, st |-> a.st]

\* ----------------------------------------------------- Cat.run_job
\* ---- the channel jobs: frequency, modulation, step, tone, tone_frequency,
\* rev, shift; and up, down
ChannelJobs == {"frequency", "modulation", "step", "tone", "tone_frequency",
                "rev", "shift"}

\* FREQUENCY_LIMITS, in MHz
FREQUENCY_LIMITS ==
    [A |-> [min |-> 118, max |-> 524], B |-> [min |-> 136, max |-> 1300]]

\* FREQUENCY_BAND_LIMITS, in Hz
FREQUENCY_BAND_LIMITS ==
    { [min |-> 118000000, max |-> 136000000], [min |-> 136000000, max |-> 200000000],
      [min |-> 200000000, max |-> 300000000], [min |-> 400000000, max |-> 524000000],
      [min |-> 800000000, max |-> 1300000000] }

\* freq in range(min, max): max excluded
same_frequency_band(freq1, freq2) ==
    \E b \in FREQUENCY_BAND_LIMITS :
        /\ b.min <= freq1 /\ freq1 < b.max
        /\ b.min <= freq2 /\ freq2 < b.max

\* the repeater shift and offset of a frequency
frequency_shifts(frequency) ==
    LET In(lo, hi) == lo <= frequency /\ frequency <= hi
    IN  IF In(145100000, 145499900) THEN <<"2", "00600000">>
        ELSE IF In(146000000, 146399000) THEN <<"1", "00600000">>
        ELSE IF In(146600000, 146999000) THEN <<"2", "00600000">>
        ELSE IF In(147000000, 147399000) THEN <<"1", "00600000">>
        ELSE IF In(147600000, 147999000) THEN <<"2", "00600000">>
        ELSE IF In(442000000, 444999000) THEN <<"1", "05000000">>
        ELSE IF In(447000000, 449999000) THEN <<"2", "05000000">>
        ELSE <<"0", "00000000">>

\* the keys of TONE_TYPE_DICT['map'] in the order of the dictionary, and
\* int(key)
TONE_TYPE_DICT_keys == <<"0", "6", "7", "8">>

TONE_TYPE_int == "0" :> 0 @@ "6" :> 6 @@ "7" :> 7 @@ "8" :> 8

\* TONE_FREQUENCY_DICT[type]['inv'][text]
TONE_FREQUENCY_DICT_inv(type, text) ==
    LET d == IF type = "8" THEN dcs_frequency_dict ELSE pll_frequency_dict
    IN  IF \E k \in DOMAIN d : d[k] = text
            THEN [exc |-> "", v |-> CHOOSE k \in DOMAIN d : d[k] = text]
            ELSE [exc |-> "KeyError", v |-> ""]

\* the for loop over TONE_TYPE_DICT['map']: the first key whose field is '1'
\* (field 0 is the command name); '0' when the loop ends without break
current_type(arg_list) ==
    LET hit == {i \in 1..4 :
                   Idx(arg_list, TONE_TYPE_int[TONE_TYPE_DICT_keys[i]]) = "1"}
    IN  IF hit = {} THEN "0"
        ELSE TONE_TYPE_DICT_keys[CHOOSE i \in hit : \A j \in hit : i <= j]

\* the three tone bits all set to '0' (a tone job with the bits left as read)
tone_bits_kept(arg_list) == arg_list

\* arg_list[int(t)] = arg_list[int(c)] = arg_list[int(d)] = '0'
tone_bits_off(arg_list) ==
    SetIdx(SetIdx(SetIdx(arg_list, 6, "0"), 7, "0"), 8, "0")

\* job tone: the type is changed unless it is the current one; the frequency
\* fields 9, 10, 11 are not assigned
tone_job(job, arg_list) ==
    LET cur == current_type(arg_list)
        same_type == cur = Idx(job, 2)
        off == tone_bits_off(arg_list)
    IN  IF same_type THEN arg_list
        ELSE IF Idx(job, 2) # "0"
            THEN SetIdx(off, TONE_TYPE_int[Idx(job, 2)], "1")
            ELSE off

\* job tone_frequency: the frequency field of the current type, three
\* fields up from its bit
tone_frequency_job(job, arg_list) ==
    LET cur == current_type(arg_list)
        code == TONE_FREQUENCY_DICT_inv(cur, Idx(job, 2))
    IN  IF cur = "0" THEN [exc |-> "", v |-> arg_list]
        ELSE IF code.exc # "" THEN [exc |-> code.exc, v |-> arg_list]
        ELSE [exc |-> "", v |-> SetIdx(arg_list, TONE_TYPE_int[cur] + 3, code.v)]

\* (a reverse that shifts the same way in both directions)
rev_job_one_way(arg_list) ==
    LET f == IntOf(Idx(arg_list, 2))
        o == IntOf(Idx(arg_list, 12))
        to_rev == Idx(arg_list, 5) = "0"
        shift == Idx(arg_list, 4)
    IN  IF f.exc # "" THEN [exc |-> f.exc, v |-> arg_list]
        ELSE IF shift \in {"1", "2"} /\ o.exc # "" THEN [exc |-> o.exc, v |-> arg_list]
        ELSE [exc |-> "",
              v |-> SetIdx(SetIdx(arg_list, 5, IF to_rev THEN "1" ELSE "0"), 2,
                           Format010d[IF shift = "1" THEN f.v + o.v
                                      ELSE IF shift = "2" THEN f.v - o.v
                                      ELSE f.v])]

\* job rev: the reverse flag is toggled and the frequency moved by the
\* offset, towards the shift when reverse is switched on, back when off
rev_job(arg_list) ==
    LET f == IntOf(Idx(arg_list, 2))
        o == IntOf(Idx(arg_list, 12))
        to_rev == Idx(arg_list, 5) = "0"
        shift == Idx(arg_list, 4)
        sign == IF to_rev THEN 1 ELSE -1
    IN  IF f.exc # "" THEN [exc |-> f.exc, v |-> arg_list]
        ELSE IF shift \in {"1", "2"} /\ o.exc # "" THEN [exc |-> o.exc, v |-> arg_list]
        ELSE [exc |-> "",
              v |-> SetIdx(SetIdx(arg_list, 5, IF to_rev THEN "1" ELSE "0"), 2,
                           Format010d[IF shift = "1" THEN f.v + sign * o.v
                                      ELSE IF shift = "2" THEN f.v - sign * o.v
                                      ELSE f.v])]

\* int(job[2] * 1000000) on the frequencies in MHz the jobs carry (floats:
\* 128.003 * 1000000 is 128002999.99999999)
MHzToHz ==
    "147.12" :> 147120000 @@ "128.003" :> 128002999 @@ "600.0" :> 600000000

\* job frequency: the frequency, and the shift and offset of its band plan
frequency_job(job, arg_list) ==
    LET hz == MHzToHz[Idx(job, 2)]
    IN  SetIdx(SetIdx(SetIdx(arg_list, 2, Format010d[hz]),
                      4, frequency_shifts(hz)[1]),
               12, frequency_shifts(hz)[2])

\* (a job that sends the record as it was read)
ChannelEdit_unapplied(job, arg_list) == Value(arg_list)

\* the record of a channel job: the record read with the job applied
ChannelEdit(job, arg_list) ==
    LET kind == Idx(job, 0)
    IN  IF Len(arg_list) < 14 THEN [exc |-> "IndexError", v |-> arg_list]
        ELSE CASE kind = "tone" -> Value(tone_job(job, arg_list))
               [] kind = "tone_frequency" -> tone_frequency_job(job, arg_list)
               [] kind = "frequency" -> Value(frequency_job(job, arg_list))
               [] kind = "modulation" -> Value(SetIdx(arg_list, 13, Idx(job, 2)))
               [] kind = "step" -> Value(SetIdx(arg_list, 3, Idx(job, 2)))
               [] kind = "shift" -> Value(SetIdx(arg_list, 4, Idx(job, 2)))
               [] kind = "rev" -> rev_job(arg_list)

\* (limits that let every frequency through)
within_limits_any(side, frequency) == TRUE

\* _min <= frequency <= _max, the limits of the side in Hz
within_limits(side, frequency) ==
    /\ FREQUENCY_LIMITS[side].min * 1000000 <= frequency
    /\ frequency <= FREQUENCY_LIMITS[side].max * 1000000

\* up and down on a channel record (VFO): the frequency one step further if
\* that is within the limits of the side, with the shift and offset of its
\* band plan and reverse off.  out is "send", "return" or the exception.
UpDown(job, arg_list) ==
    LET f == IntOf(Idx(arg_list, 2))
        known == Idx(arg_list, 3) \in DOMAIN STEP_DICT_map
        text == STEP_DICT_map[Idx(arg_list, 3)]
        step == IF Idx(job, 0) = "down" THEN 0 - StepHz[text] ELSE StepHz[text]
        to == f.v + step
        No(out) == [out |-> out, req |-> <<>>]
    IN  IF Len(arg_list) < 14 THEN No("IndexError")
        ELSE IF f.exc # "" THEN No(f.exc)
        ELSE IF ~known THEN No("KeyError")
        ELSE IF text \notin DOMAIN StepHz THEN No("ValueError")
        ELSE IF within_limits(Idx(job, 1), to)
            THEN [out |-> "send",
                  req |-> SetIdx(SetIdx(SetIdx(SetIdx(arg_list, 2, Format010d[to]),
                                               4, frequency_shifts(to)[1]),
                                        5, "0"),
                                 12, frequency_shifts(to)[2])]
        ELSE No("return")

\* (no record makes the job be skipped)
skipped_never(arg_list) == FALSE

\* if arg_list[0] not in ['CC', 'FO', 'ME']: WX or unknown mode, job[0] = None
skipped(arg_list) == Idx(arg_list, 0) \notin {"CC", "FO", "ME"}

\* (the channel of the side read, none selected)
ch_number_arg_read(job) == <<"MR", IF Idx(job, 1) = "A" THEN "0" ELSE "1">>

\* the command of a ch_number job on a side in Memory mode:
\* f"MR {'0' if job[1] == 'A' else '1'},{job[2]}"
ch_number_arg(job) ==
    <<"MR", IF Idx(job, 1) = "A" THEN "0" ELSE "1", Idx(job, 2)>>

\* run_job of a channel job or of up and down, after the reply of the
\* exchange l.lab: get_arg_list (ga_vm, ga_mr, ga_rec), then the record is
\* edited and sent; for a memory the VFO is read first (me_vm0, me_fo, me_vm1)
\* and the user asked; after No the side goes to VFO (no_vm0).  out as in
\* JobReply, or "ask" (Cat.ask is called).
ChannelReply(l, result, st) ==
    LET job == l.act
        kind == Idx(job, 0)
        s == SIDE_DICT_inv[Idx(job, 1)]
        Fail == [out |-> "fail", w |-> l, put |-> <<>>]
        Raise(e) == [out |-> e, w |-> l, put |-> <<>>]
        Return == [out |-> "return", w |-> l, put |-> <<>>]
        Goto(lab, req, l2) ==
            [out |-> "next", w |-> [l2 EXCEPT !.lab = lab, !.req = req], put |-> <<>>]
    IN  IF result = <<>> THEN Fail
        ELSE CASE l.lab = "ga_vm" ->
                    \* _, _, _m = list(_answer)
                    IF Len(result) # 3 THEN Raise("ValueError")
                    ELSE LET m == Idx(result, 2)
                         IN  CASE m = "0" -> Goto("ga_rec", <<"FO", s>>, l)
                               [] m = "1" -> Goto("ga_mr", <<"MR", s>>, l)
                               [] m = "2" -> Goto("ga_rec", <<"CC", s>>, l)
                               [] OTHER -> Goto("ga_rec", <<"VM", s, "3">>, l)
               [] l.lab = "ga_mr" ->
                    IF ~HasIdx(result, 2) THEN Raise("IndexError")
                    ELSE Goto("ga_rec", <<"ME", Idx(result, 2)>>, l)
               [] l.lab = "ga_rec" ->
                    IF Idx(result, 0) = "N" THEN Fail
                    ELSE IF kind \in {"up", "down"} THEN
                        CASE Idx(result, 0) = "FO" ->
                                LET u == UpDown(job, result)
                                IN  IF u.out = "send" THEN Goto("last", u.req, l)
                                    ELSE IF u.out = "return" THEN Return
                                    ELSE Raise(u.out)
                          [] Idx(result, 0) = "ME" ->
                                IF st[Idx(job, 1)].ctrl # "CTRL"
                                    THEN Goto("ud_bc",
                                              <<"BC", s, IF st.A.ptt = "PTT" THEN "0" ELSE "1">>,
                                              [l EXCEPT !.saved =
                                                  <<"BC", IF st.A.ctrl = "CTRL" THEN "0" ELSE "1",
                                                    IF st.A.ptt = "PTT" THEN "0" ELSE "1">>])
                                    ELSE Goto("last", <<IF kind = "up" THEN "UP" ELSE "DW">>, l)
                          [] OTHER -> Return
                    ELSE IF kind = "ch_number" THEN
                        \* if arg_list[0] == 'ME': the MR command is sent
                        IF Idx(result, 0) = "ME"
                            THEN Goto("ch_mr", ch_number_arg(job), l)
                            ELSE Return
                    ELSE IF skipped(result) THEN Return
                    ELSE LET e == ChannelEdit(job, result)
                         IN  IF e.exc # "" THEN Raise(e.exc)
                             ELSE IF Idx(result, 0) = "ME"
                                 THEN Goto("me_vm0", <<"VM", s, "0">>,
                                           [l EXCEPT !.arg_list = e.v])
                             ELSE Goto("last", e.v, l)
               [] l.lab = "ch_mr" ->
                    \* elif _ans[0] == 'N': msg_queue.put(['ERROR', ...])
                    IF Idx(result, 0) = "N"
                        THEN [out |-> "return", w |-> [l EXCEPT !.msg = "ERROR"],
                              put |-> <<>>]
                        ELSE Return
               [] l.lab = "ud_bc" ->
                    Goto("ud_step", <<IF kind = "up" THEN "UP" ELSE "DW">>, l)
               [] l.lab = "ud_step" -> Goto("last", l.saved, l)
               [] l.lab = "me_vm0" -> Goto("me_fo", <<"FO", s>>, l)
               [] l.lab = "me_fo" ->
                    Goto("me_vm1", <<"VM", s, "1">>, [l EXCEPT !.saved = result])
               [] l.lab = "me_vm1" ->
                    \* same_frequency_band(int(result[2]), int(arg_list[2]))
                    IF ~HasIdx(l.saved, 2) THEN Raise("IndexError")
                    ELSE LET f1 == IntOf(Idx(l.saved, 2))
                             f2 == IntOf(Idx(l.arg_list, 2))
                         IN  IF f1.exc # "" THEN Raise(f1.exc)
                             ELSE IF f2.exc # "" THEN Raise(f2.exc)
                             ELSE [out |-> "ask",
                                   w |-> [l EXCEPT !.lab = "ask",
                                             !.ask_type =
                                                 IF same_frequency_band(f1.v, f2.v)
                                                     THEN "yesnocancel" ELSE "okcancel"],
                                   put |-> <<>>]
               [] l.lab = "no_vm0" ->
                    \* arg_list[0] = 'FO'; arg_list[1] = side; del arg_list[14:]
                    Goto("last",
                         <<"FO", s>> \o SubSeq(l.arg_list, 3, 14), l)

MenuJobs == {"beep", "vhf_aip", "uhf_aip", "speed", "backlight", "apo", "data", "timeout"}

\* Cat.query on the raw strings of rig.command: request.split(maxsplit=1),
\* then "<command> <arguments>" is written; the empty string and a string of
\* whitespace split into the empty list
RawRequest ==
    "ID" :> <<"ID">> @@ "MU" :> <<"MU">> @@ "LK" :> <<"LK">> @@
    "MN 010" :> <<"MN", "010">> @@ "XX" :> <<"XX">> @@
    "" :> <<>> @@ " " :> <<>>

\* run_job up to its first exchange.  out is "next" (write l.req), "join"
\* (a command job: reply_queue.join() first) or "return" (no exchange: the
\* final else, job returned).
JobBegin(l) ==
    LET job == l.act
        kind == Idx(job, 0)
        First(lab, req) == [out |-> "next", w |-> [l EXCEPT !.lab = lab, !.req = req]]
    IN  CASE kind = "mode" -> First("mode_bc", <<"BC">>)
          [] kind \in {"ptt", "ctrl"} -> First("bc_get", <<"BC">>)
          [] kind = "power" ->
                First("last", <<"PC", SIDE_DICT_inv[Idx(job, 1)], Idx(job, 2)>>)
          [] kind = "lock" -> First("lk_get", <<"LK">>)
          [] kind \in MenuJobs -> First("mu_get", <<"MU">>)
          [] kind = "micup" -> First("last", <<"UP">>)
          [] kind = "micdown" -> First("last", <<"DW">>)
          [] kind = "cat_ptt" -> First("last", <<Idx(job, 1)>>)
          [] kind \in ChannelJobs \cup {"up", "down", "ch_number"} ->
                \* get_arg_list: len(job) > 1 and job[1] in ('A', 'B')
                IF Len(job) > 1 /\ Idx(job, 1) \in {"A", "B"}
                    THEN First("ga_vm", <<"VM", SIDE_DICT_inv[Idx(job, 1)]>>)
                    ELSE [out |-> "fail", w |-> l]
          [] kind = "command" ->
                [out |-> "join",
                 w |-> [l EXCEPT !.lab = "command", !.req = RawRequest[Idx(job, 1)]]]
          [] OTHER -> [out |-> "return", w |-> l]

\* The MU record of a menu job: the field of the job patched in mu_list.
\* beep and apo fall through the final else and patch nothing.
MenuPatch(job, mu_list, st) ==
    LET kind == Idx(job, 0)
        Set(i, v) == IF HasIdx(mu_list, i)
                        THEN [exc |-> "", v |-> SetIdx(mu_list, i, v)]
                        ELSE [exc |-> "IndexError", v |-> mu_list]
        Toggle(i) == IF HasIdx(mu_list, i)
                        THEN [exc |-> "",
                              v |-> SetIdx(mu_list, i,
                                           IF Idx(mu_list, i) = "1" THEN "0" ELSE "1")]
                        ELSE [exc |-> "IndexError", v |-> mu_list]
    IN  CASE kind = "backlight" ->
                Set(28, MENU_backlight_values[IF st.backlight = "green"
                                                 THEN "amber" ELSE "green"])
          [] kind = "data" -> Set(38, Idx(job, 1))
          [] kind = "speed" -> Set(39, Idx(job, 1))
          [] kind = "timeout" -> Set(16, Idx(job, 1))
          [] kind = "vhf_aip" -> Toggle(11)
          [] kind = "uhf_aip" -> Toggle(12)
          [] OTHER -> [exc |-> "", v |-> mu_list]

\* (CTRL written back to the side that holds it)
DataToggle_same(l, bc, lab) ==
    IF ~HasIdx(bc, 2) THEN [out |-> "IndexError", w |-> l, put |-> <<>>]
    ELSE [out |-> "next",
          w |-> [l EXCEPT !.lab = lab, !.bc = bc,
                          !.req = <<"BC", Idx(bc, 1), Idx(bc, 2)>>],
          put |-> <<>>]

\* One pass of the data job's loop "for _ in range(2)": bc[1] and bc[2] are
\* read from the last BC reply, whatever it was, and the BC write is built.
DataToggle(l, bc, lab) ==
    IF ~HasIdx(bc, 2) THEN [out |-> "IndexError", w |-> l, put |-> <<>>]
    ELSE [out |-> "next",
          w |-> [l EXCEPT !.lab = lab, !.bc = bc,
                          !.req = <<"BC", IF Idx(bc, 1) = "0" THEN "1" ELSE "0",
                                    Idx(bc, 2)>>],
          put |-> <<>>]

\* (PTT first, then CTRL)
get_ptt_ctrl_swapped(answer) == <<Idx(answer, 2), Idx(answer, 1)>>

\* get_ptt_ctrl: return _answer[1], _answer[2], the CTRL side and the PTT side
get_ptt_ctrl(answer) == <<Idx(answer, 1), Idx(answer, 2)>>

\* run_job after the reply of the exchange l.lab.  out is "next" (write
\* l.req), "return" (job returned), "fail" ([] returned) or the exception
\* raised; put is the reply a command job puts on reply_queue (the history
\* keeps with it, as sent, the fields the radio sent).
JobReply(l, result, st) ==
    LET job == l.act
        kind == Idx(job, 0)
        Fail == [out |-> "fail", w |-> l, put |-> <<>>]
        Raise(e) == [out |-> e, w |-> l, put |-> <<>>]
        Return == [out |-> "return", w |-> l, put |-> <<>>]
        Goto(lab, req, l2) ==
            [out |-> "next", w |-> [l2 EXCEPT !.lab = lab, !.req = req], put |-> <<>>]
    IN  CASE kind \in ChannelJobs \cup {"up", "down", "ch_number"} /\ l.lab # "last" ->
                ChannelReply(l, result, st)
          [] l.lab = "d_t1" ->
                \* bc = handle_query(...); if not bc: _error = True; second pass
                DataToggle([l EXCEPT !.error = (result = <<>>)], result, "d_t2")
          [] l.lab = "d_t2" ->
                IF result = <<>> \/ l.error THEN Fail ELSE Return
          [] result = <<>> -> Fail
          [] l.lab = "last" -> Return
          [] l.lab = "mode_bc" ->
                \* get_ptt_ctrl: return _answer[1], _answer[2]
                IF ~HasIdx(result, 2) THEN Raise("IndexError")
                ELSE Goto("mode_vm",
                          <<"VM", SIDE_DICT_inv[Idx(job, 1)], Idx(job, 2)>>,
                          [l EXCEPT !.saved = get_ptt_ctrl(result)])
          [] l.lab = "mode_vm" ->
                Goto("last", <<"BC", l.saved[1], l.saved[2]>>, l)
          [] l.lab = "bc_get" ->
                IF ~HasIdx(result, 2) THEN Raise("IndexError")
                ELSE IF kind = "ptt"
                    THEN Goto("last", <<"BC", Idx(result, 1), SIDE_DICT_inv[Idx(job, 1)]>>, l)
                    ELSE Goto("last", <<"BC", SIDE_DICT_inv[Idx(job, 1)], Idx(result, 2)>>, l)
          [] l.lab = "lk_get" ->
                IF ~HasIdx(result, 1) THEN Raise("IndexError")
                ELSE Goto("last", <<"LK", IF Idx(result, 1) = "0" THEN "1" ELSE "0">>, l)
          [] l.lab = "mu_get" ->
                LET p == MenuPatch(job, result, st)
                IN  IF p.exc # "" THEN Raise(p.exc)
                    ELSE Goto(IF kind = "data" THEN "mu_set" ELSE "last",
                              <<"MU">> \o Tail(p.v), l)
          [] l.lab = "mu_set" -> Goto("d_bc", <<"BC">>, l)
          [] l.lab = "d_bc" -> DataToggle(l, result, "d_t1")
          [] l.lab = "command" ->
                [out |-> "return", w |-> l, put |-> result]

\* ------------------------------------------------------------- PTT
\* The start-up conditions of the PTT drivers: the hidapi module can be
\* imported, a C-Media device is found, it can be opened; the serial port of
\* the digirig can be opened; gpiozero can be imported, GPIO pins are found.
PttEnvs ==
    [hid : BOOLEAN, found : BOOLEAN, opens : BOOLEAN, serial : BOOLEAN,
     gpiozero : BOOLEAN, pins : BOOLEAN]

\* the PTT method strings, and the branch each takes (== 'cat',
\* startswith('digirig') with or without '@<device>', startswith('cm108'),
\* the GPIO names, none of these)
PttMethod ==
    "cat" :> "cat" @@ "none" :> "none" @@ "digirig" :> "digirig" @@
    "digirig@/dev/ttyUSB1" :> "digirig@" @@ "cm108" :> "cm108" @@
    "cm108:2" :> "cm108" @@ "left" :> "gpio" @@ "4" :> "gpio"

\* An object is the function from the names of its attributes to their
\* values, "class" among them; self.ptt = None is the object of class None.
NoPtt == "class" :> None

CatPtt == "class" :> "CatPtt"

\* the attribute the property ready of a class returns
ReadyAttribute ==
    "DigirigPtt" :> "digirig_ready" @@ "CM108Ptt" :> "CM108_ready" @@
    "GPIOPtt" :> "gpio_ready"

\* obj.ready: AttributeError when __init__ never assigned the attribute read
ready(obj) ==
    IF ReadyAttribute[obj["class"]] \in DOMAIN obj
        THEN [exc |-> "", v |-> obj[ReadyAttribute[obj["class"]]]]
        ELSE [exc |-> "AttributeError", v |-> FALSE]

\* Ptt.DigirigPtt.__init__
DigirigPtt_init(kind, env) ==
    IF kind = "digirig"
        THEN "class" :> "DigirigPtt" @@ "rts" :> 0 @@ "digirig_ready" :> TRUE
    ELSE IF env.serial
        THEN "class" :> "DigirigPtt" @@ "rts" :> 0 @@ "digirig_ready" :> TRUE
    ELSE "class" :> "DigirigPtt" @@ "digirig_ready" :> FALSE

\* Ptt.CM108Ptt.__init__: without hidapi the attribute assigned is
\* cm108_ready
CM108Ptt_init(env) ==
    IF ~env.hid THEN "class" :> "CM108Ptt" @@ "cm108_ready" :> FALSE
    ELSE "class" :> "CM108Ptt" @@ "ptt_active" :> 0 @@
         "CM108_ready" :> (env.found /\ env.opens)

\* Ptt.GPIOPtt.__init__
GPIOPtt_init(env) ==
    IF ~env.gpiozero THEN "class" :> "GPIOPtt" @@ "gpio_ready" :> FALSE
    ELSE IF ~env.pins THEN "class" :> "GPIOPtt" @@ "gpio_ready" :> FALSE
    ELSE "class" :> "GPIOPtt" @@ "value" :> 0 @@ "gpio_ready" :> TRUE

\* Ptt.__init__: the object made, None if it is not ready
Ptt_init(method, env) ==
    LET kind == PttMethod[method]
        obj == CASE kind \in {"digirig", "digirig@"} -> DigirigPtt_init(kind, env)
                 [] kind = "cm108" -> CM108Ptt_init(env)
                 [] kind = "gpio" -> GPIOPtt_init(env)
                 [] kind = "cat" -> CatPtt
                 [] OTHER -> NoPtt
    IN  IF kind \in {"cat", "none"} THEN [exc |-> "", obj |-> obj]
        ELSE IF ready(obj).exc # "" THEN [exc |-> ready(obj).exc, obj |-> NoPtt]
        ELSE IF ~ready(obj).v THEN [exc |-> "", obj |-> NoPtt]
        ELSE [exc |-> "", obj |-> obj]

\* Cat.CM108Ptt.__init__: without hidapi it returns before any attribute is
\* assigned
Cat_CM108Ptt_init(env) ==
    IF ~env.hid THEN "class" :> "CM108Ptt"
    ELSE "class" :> "CM108Ptt" @@ "ptt_active" :> 0 @@
         "CM108_ready" :> (env.found /\ env.opens)

\* Cat.__init__, from self.ptt_pin = ptt_pin on: the GPIO branch reads
\* GPIO_PTT_DICT, a name no module defines
Cat_init(ptt_pin, env) ==
    LET kind == PttMethod[ptt_pin]
        cm108 == Cat_CM108Ptt_init(env)
    IN  CASE kind = "none" -> [exc |-> "", obj |-> NoPtt]
          [] kind = "digirig" ->
                [exc |-> "", obj |-> "class" :> "DigirigPtt" @@ "rts" :> 0]
          [] kind = "digirig@" ->
                [exc |-> "",
                 obj |-> IF env.serial THEN "class" :> "DigirigPtt" @@ "rts" :> 0
                         ELSE NoPtt]
          [] kind = "cat" -> [exc |-> "", obj |-> CatPtt]
          [] kind = "cm108" ->
                IF ready(cm108).exc # "" THEN [exc |-> ready(cm108).exc, obj |-> NoPtt]
                ELSE IF ~ready(cm108).v THEN [exc |-> "", obj |-> NoPtt]
                ELSE [exc |-> "", obj |-> cm108]
          [] kind = "gpio" ->
                IF ~env.gpiozero THEN [exc |-> "", obj |-> NoPtt]
                ELSE [exc |-> "NameError", obj |-> NoPtt]

\* the PTT driver the controller of the sections above runs with: Cat made
\* with ptt_pin 'cat'
Ptt0 ==
    [pc |-> "made", class |-> "Cat", method |-> "cat",
     env |-> [hid |-> TRUE, found |-> TRUE, opens |-> TRUE, serial |-> TRUE,
              gpiozero |-> TRUE, pins |-> TRUE],
     exc |-> "", obj |-> CatPtt, read |-> -1]

\* ------------------------------------------------------------- Init
\* the jobs the panel puts on the queue (Display.widget_clicked, the buttons)
GuiJobs == { <<"power", "A", "1">>, <<"data", "1">>, <<"quit">> }

\* the raw commands the XML-RPC clients pass to rig.command
RawCommands == {"ID"}

\* the start-up queries sent through Controller.send_command
ProbeCommands == {<<"ID">>}

NoAnswer == [reply |-> <<>>, id |-> 0, sent |-> <<>>]

Rpc0 == [pc |-> "idle", id |-> 0, answer |-> NoAnswer, snap |-> <<>>, n |-> 0]

\* the state after construction, with one of the radios and one of the PTT
\* drivers
Constructed(radios, ptts) ==
    /\ radio \in radios
    /\ ptt \in ptts
    /\ faults = 0
    /\ outstanding = {}
    /\ serial_open = TRUE
    /\ state = State0
    /\ previous_rig_dictionary = State0   \* None: differs from every refreshed state
    /\ cmd_queue = <<>>
    /\ reply_queue = <<>>
    /\ unfinished = 0
    /\ controller_running = FALSE
    /\ pc = [main |-> "init", worker |-> "unstarted"]
    /\ w = W0
    /\ xmlrpc = [thread |-> "unstarted", shutdown_request |-> FALSE,
                 is_shut_down |-> FALSE]
    /\ rpc = [c \in Callers |-> Rpc0]
    /\ ptt_active = 0
    /\ gui = None
    /\ hist = [enq |-> <<>>, begun |-> <<>>, finished |-> <<>>, commits |-> <<>>,
               exchanged |-> {}, unsupported |-> {}, failed |-> {},
               errors |-> {}, start |-> radio]

InitWith(radios) == Constructed(radios, {Ptt0})

Init == InitWith({Radio0("0", "0"), Radio0("1", "1")})

\* cmd_queue.put(job); the history numbers the jobs in the order of the puts
Put_cmd_queue(job) ==
    /\ Len(hist.enq) < MaxJobs
    /\ cmd_queue' = Append(cmd_queue, [job |-> job, id |-> Len(hist.enq) + 1])
    /\ hist' = [hist EXCEPT !.enq = Append(@, job)]

\* ------------------------------------------------- the main thread
\* Controller.send_command: handle_query called directly, not through the
\* queue.  The start-up code calls it before start_gui starts the controller
\* thread (as the legacy script does for its test queries, src/710.py).
send_command ==
    /\ pc.main = "init"
    /\ \E req \in ProbeCommands :
          outstanding' = outstanding \cup {[by |-> "main", id |-> 0, req |-> req]}
    /\ pc' = [pc EXCEPT !.main = "probe"]
    /\ UNCHANGED <<ptt, gui, radio, faults, serial_open, state, previous_rig_dictionary,
                   cmd_queue, reply_queue, unfinished, controller_running, w,
                   xmlrpc, rpc, ptt_active, hist>>

send_command_reply ==
    /\ pc.main = "probe"
    /\ \E o \in outstanding :
       \E x \in Exchange(radio, o.req, MaxFaults - faults) :
          /\ o.by = "main"
          /\ outstanding' = outstanding \ {o}
          /\ radio' = x.radio
          /\ faults' = IF x = RadioAnswer(radio, o.req) THEN faults ELSE faults + 1
    /\ pc' = [pc EXCEPT !.main = "init"]
    /\ UNCHANGED <<ptt, gui, serial_open, state, previous_rig_dictionary, cmd_queue,
                   reply_queue, unfinished, controller_running, w, xmlrpc, rpc,
                   ptt_active, hist>>

\* Controller.start_gui: the controller thread is started, then
\* _start_xmlrpc_server waits for the first data
start_gui ==
    /\ pc.main = "init"
    /\ controller_running' = TRUE
    /\ pc' = [main |-> "wait", worker |-> "loop"]
    /\ UNCHANGED <<ptt, gui, radio, faults, outstanding, serial_open, state,
                   previous_rig_dictionary, cmd_queue, reply_queue, unfinished, w,
                   xmlrpc, rpc, ptt_active, hist>>

\* _start_xmlrpc_server: speed is set, the server thread is started
\* (serve_forever clears is_shut_down); back in start_gui, self.cat.gui_root
\* = self.root.  Taken as one step where no job prompts (nobody reads gui).
start_xmlrpc_server ==
    /\ pc.main = "wait"
    /\ state.speed # None
    /\ xmlrpc' = [xmlrpc EXCEPT !.thread = "serving", !.is_shut_down = FALSE]
    /\ gui' = "root"
    /\ pc' = [pc EXCEPT !.main = "mainloop"]
    /\ UNCHANGED <<ptt, radio, faults, outstanding, serial_open, state,
                   previous_rig_dictionary, cmd_queue, reply_queue, unfinished,
                   controller_running, w, rpc, ptt_active, hist>>

\* _start_xmlrpc_server alone: the server thread is started and serves;
\* start_gui has not yet assigned gui_root
xmlrpc_thread_start ==
    /\ pc.main = "wait"
    /\ state.speed # None
    /\ xmlrpc' = [xmlrpc EXCEPT !.thread = "serving", !.is_shut_down = FALSE]
    /\ pc' = [pc EXCEPT !.main = "gui_root"]
    /\ UNCHANGED <<ptt, gui, radio, faults, outstanding, serial_open, state,
                   previous_rig_dictionary, cmd_queue, reply_queue, unfinished,
                   controller_running, w, rpc, ptt_active, hist>>

\* start_gui, its last statement: self.cat.gui_root = self.root; the main
\* thread goes on to root.mainloop()
set_gui_root ==
    /\ pc.main = "gui_root"
    /\ gui' = "root"
    /\ pc' = [pc EXCEPT !.main = "mainloop"]
    /\ UNCHANGED <<ptt, radio, faults, outstanding, serial_open, state,
                   previous_rig_dictionary, cmd_queue, reply_queue, unfinished,
                   controller_running, w, xmlrpc, rpc, ptt_active, hist>>

\* _start_xmlrpc_server: no data in 5 seconds, stop() is called
start_timeout ==
    /\ pc.main = "wait"
    /\ state.speed = None
    /\ pc' = [pc EXCEPT !.main = "stop"]
    /\ UNCHANGED <<ptt, gui, radio, faults, outstanding, serial_open, state,
                   previous_rig_dictionary, cmd_queue, reply_queue, unfinished,
                   controller_running, w, xmlrpc, rpc, ptt_active, hist>>

\* Display.widget_clicked and the Quit button: a job is put on the queue.
\* Tk dispatches a click in root.mainloop() or in the root.update() of the
\* controller thread, so not before the display was first updated.
widget_clicked ==
    /\ pc.main = "mainloop" \/ hist.commits # <<>>
    /\ \E job \in GuiJobs : Put_cmd_queue(job)
    /\ UNCHANGED <<ptt, gui, radio, faults, outstanding, serial_open, state,
                   previous_rig_dictionary, reply_queue, unfinished,
                   controller_running, pc, w, xmlrpc, rpc, ptt_active>>

\* Display.widget_clicked on a screen button (REV, UP, DOWN) or a label with
\* a popup (tone, shift, modulation, step, mode): one of jobs is put
screen_clicked(jobs) ==
    /\ pc.main = "mainloop" \/ hist.commits # <<>>
    /\ \E job \in jobs : Put_cmd_queue(job)
    /\ UNCHANGED <<ptt, gui, radio, faults, outstanding, serial_open, state,
                   previous_rig_dictionary, reply_queue, unfinished,
                   controller_running, pc, w, xmlrpc, rpc, ptt_active>>

\* ------------------------------------ Controller.controller (worker)
\* while self.controller_running fails: the loop is left, stop() is called
controller_leave ==
    /\ pc.worker = "loop"
    /\ ~controller_running
    /\ pc' = [pc EXCEPT !.worker = "stop"]
    /\ UNCHANGED <<ptt, gui, radio, faults, outstanding, serial_open, state,
                   previous_rig_dictionary, cmd_queue, reply_queue, unfinished,
                   controller_running, w, xmlrpc, rpc, ptt_active, hist>>

\* (the loop asking nothing of the queue)
QueueEmpty_unasked == TRUE

\* if self.cmd_queue.empty():
QueueEmpty == cmd_queue = <<>>

\* cmd_queue.empty(): update_dictionary is called
controller_refresh ==
    /\ pc.worker = "loop"
    /\ controller_running
    /\ QueueEmpty
    /\ w' = [W0 EXCEPT !.act = Refresh, !.lab = "BC", !.req = <<"BC">>,
                       !.before = state]
    /\ pc' = [pc EXCEPT !.worker = "send"]
    /\ UNCHANGED <<ptt, gui, radio, faults, outstanding, serial_open, state,
                   previous_rig_dictionary, cmd_queue, reply_queue, unfinished,
                   controller_running, xmlrpc, rpc, ptt_active, hist>>

\* (a queue handing out its newest entry)
Get_cmd_queue_newest == cmd_queue[Len(cmd_queue)]

\* cmd_queue.get(): the entry the worker takes, the oldest
Get_cmd_queue == Head(cmd_queue)

\* (a loop with no quit job)
IsQuit_never(job) == FALSE

\* if job[0] == 'quit':
IsQuit(job) == Idx(job, 0) = "quit"

\* job = cmd_queue.get(): quit breaks; any other job is handed to run_job,
\* which runs up to its first exchange (a job with none is finished at once)
controller_job ==
    /\ pc.worker = "loop"
    /\ controller_running
    /\ cmd_queue # <<>>
    /\ LET e == Get_cmd_queue
           b == JobBegin([W0 EXCEPT !.act = e.job, !.id = e.id, !.before = state])
       IN  /\ cmd_queue' = SelectSeq(cmd_queue, LAMBDA x : x # e)
           /\ hist' = [hist EXCEPT
                         !.begun = Append(@, e.id),
                         !.finished = IF ~IsQuit(e.job) /\ b.out = "return"
                                         THEN Append(@, e.id) ELSE @]
           /\ IF IsQuit(e.job)
                 THEN /\ w' = [W0 EXCEPT !.act = e.job, !.id = e.id, !.out = "quit"]
                      /\ pc' = [pc EXCEPT !.worker = "stop"]
                 ELSE /\ w' = IF b.out = "return" THEN W0 ELSE b.w
                      /\ pc' = [pc EXCEPT !.worker =
                                   CASE b.out = "next" -> "send"
                                     [] b.out = "join" -> "join"
                                     [] b.out = "return" -> "loop"
                                     [] b.out = "fail" -> "stop"]
    /\ UNCHANGED <<ptt, gui, radio, faults, outstanding, serial_open, state,
                   previous_rig_dictionary, reply_queue, unfinished,
                   controller_running, xmlrpc, rpc, ptt_active>>

\* the command job: self.reply_queue.join() returns when every reply put
\* so far has been acknowledged with task_done()
reply_queue_join ==
    /\ pc.worker = "join"
    /\ unfinished = 0
    /\ pc' = [pc EXCEPT !.worker = "send"]
    /\ UNCHANGED <<ptt, gui, radio, faults, outstanding, serial_open, state,
                   previous_rig_dictionary, cmd_queue, reply_queue, unfinished,
                   controller_running, w, xmlrpc, rpc, ptt_active, hist>>

\* Cat.query, first half: command = request_list[0] raises IndexError for a
\* request that splits into nothing, outside the try that makes a
\* QueryException of the errors of the port, and nothing up to the thread's
\* run catches it; else the request is written and flushed
query_write ==
    /\ pc.worker = "send"
    /\ IF w.req = <<>>
          THEN /\ w' = [w EXCEPT !.out = "IndexError"]
               /\ pc' = [pc EXCEPT !.worker = "crashed"]
               /\ UNCHANGED <<outstanding, hist>>
          ELSE /\ outstanding' =
                     outstanding \cup {[by |-> "worker", id |-> w.id, req |-> w.req]}
               /\ pc' = [pc EXCEPT !.worker = "recv"]
               /\ hist' = [hist EXCEPT !.exchanged = @ \cup {w.id}]
               /\ w' = w
    /\ UNCHANGED <<ptt, gui, radio, faults, serial_open, state, previous_rig_dictionary,
                   cmd_queue, reply_queue, unfinished, controller_running,
                   xmlrpc, rpc, ptt_active>>

\* What the controller does with the outcome r of a step of the refresh or of
\* the job: go on, start the next pass of the loop, break (then stop()), or
\* die of an exception nothing catches.  The refresh: {} makes update_display
\* raise UpdateDisplayException and IndexError is caught, both break.
AfterReply(r, h) ==
    LET refresh == w.act = Refresh
        ended == [r.w EXCEPT !.out = r.out]
        Commit(c) == IF c # <<>> /\ c[Len(c)] = r.st THEN c ELSE Append(c, r.st)
    IN  CASE r.out = "next" ->
                /\ w' = r.w
                /\ pc' = [pc EXCEPT !.worker = "send"]
                /\ hist' = h
                /\ UNCHANGED previous_rig_dictionary
          [] r.out = "ask" ->
                /\ w' = r.w
                /\ pc' = [pc EXCEPT !.worker = "ask"]
                /\ hist' = h
                /\ UNCHANGED previous_rig_dictionary
          [] r.out = "return" ->
                /\ w' = W0
                /\ pc' = [pc EXCEPT !.worker = "loop"]
                /\ previous_rig_dictionary' =
                      IF refresh THEN r.st ELSE previous_rig_dictionary
                /\ hist' = IF refresh
                              THEN [h EXCEPT !.commits = Commit(@)]
                              ELSE [h EXCEPT !.finished = Append(@, w.id)]
          [] r.out = "fail" \/ (refresh /\ r.out = "IndexError") ->
                /\ w' = ended
                /\ pc' = [pc EXCEPT !.worker = "stop"]
                /\ hist' = h
                /\ UNCHANGED previous_rig_dictionary
          [] OTHER ->
                /\ w' = ended
                /\ pc' = [pc EXCEPT !.worker = "crashed"]
                /\ hist' = h
                /\ UNCHANGED previous_rig_dictionary

\* Cat.query, second half: the reply line is read (or the read times out)
\* and made a tuple, and update_dictionary or run_job goes on to its next
\* exchange or ends
query_read ==
    /\ pc.worker = "recv"
    /\ \E o \in outstanding :
       \E x \in Exchange(radio, o.req, MaxFaults - faults) :
       \E line \in {ReplyLine(x.reply)} :
       \E result \in {query(line)} :
          /\ o.by = "worker"
          /\ outstanding' = outstanding \ {o}
          /\ radio' = x.radio
          /\ faults' = IF x = RadioAnswer(radio, o.req) THEN faults ELSE faults + 1
          /\ IF w.act = Refresh
                THEN LET r == UdReply(w, result, state)
                     IN  /\ state' = r.st
                         /\ AfterReply(r, hist)
                         /\ UNCHANGED <<ptt, gui, reply_queue, unfinished>>
                ELSE LET j == JobReply(w, result, state)
                         h == CASE x.reply = <<"?">> ->
                                       [hist EXCEPT !.unsupported = @ \cup {w.id}]
                                [] x.reply = <<>> ->
                                       [hist EXCEPT !.failed = @ \cup {w.id}]
                                [] j.w.msg = "ERROR" ->
                                       [hist EXCEPT !.errors = @ \cup {w.id}]
                                [] OTHER -> hist
                     IN  /\ state' = state
                         /\ AfterReply([out |-> j.out, w |-> j.w, st |-> state], h)
                         /\ IF j.put # <<>>
                               THEN /\ reply_queue' =
                                          Append(reply_queue,
                                                 [reply |-> j.put, id |-> w.id,
                                                  sent |-> x.reply])
                                    /\ unfinished' = unfinished + 1
                               ELSE UNCHANGED <<ptt, gui, reply_queue, unfinished>>
    /\ UNCHANGED <<ptt, gui, serial_open, cmd_queue, controller_running, xmlrpc, rpc, ptt_active>>

\* Cat.ask as run_job takes it: with no GUI attached the prompt is printed
\* and True returned; otherwise the dialog is shown and the user answers
\* (askokcancel: True or False; askyesnocancel: True, False or None).  A False
\* of the OK/Cancel dialog is made None by run_job.
AskAnswers ==
    IF gui = None THEN {"True"}
    ELSE IF w.ask_type = "okcancel" THEN {"True", "None"}
    ELSE {"True", "False", "None"}

\* run_job from the call of Cat.ask to the next exchange: the memory is
\* written (True), the job dropped (None: job[0] = None, the job is returned),
\* or the side switched to VFO (False)
Cat_ask ==
    /\ pc.worker = "ask"
    /\ \E answer \in AskAnswers :
          LET l == [w EXCEPT !.answer = answer, !.prompted = (gui # None)]
              s == SIDE_DICT_inv[Idx(w.act, 1)]
          IN  CASE answer = "True" ->
                      /\ w' = [l EXCEPT !.lab = "last", !.req = w.arg_list]
                      /\ pc' = [pc EXCEPT !.worker = "send"]
                      /\ UNCHANGED hist
                [] answer = "None" ->
                      /\ w' = W0
                      /\ pc' = [pc EXCEPT !.worker = "loop"]
                      /\ hist' = [hist EXCEPT !.finished = Append(@, w.id)]
                [] answer = "False" ->
                      /\ w' = [l EXCEPT !.lab = "no_vm0", !.req = <<"VM", s, "0">>]
                      /\ pc' = [pc EXCEPT !.worker = "send"]
                      /\ UNCHANGED hist
    /\ UNCHANGED <<ptt, gui, radio, faults, outstanding, serial_open, state,
                   previous_rig_dictionary, cmd_queue, reply_queue, unfinished,
                   controller_running, xmlrpc, rpc, ptt_active>>

\* -------------------------------------------------- Controller.stop
Threads == {"main", "worker"}

\* stop(), run by thread T: controller_running = False, then the join of the
\* controller thread: on the controller thread itself it raises the
\* RuntimeError that is caught, on the main thread it returns after 2 seconds
\* at the latest
stop_begin(T) ==
    /\ pc[T] = "stop"
    /\ controller_running' = FALSE
    /\ pc' = [pc EXCEPT ![T] = "stop_rpc"]
    /\ UNCHANGED <<ptt, gui, radio, faults, outstanding, serial_open, state,
                   previous_rig_dictionary, cmd_queue, reply_queue, unfinished, w,
                   xmlrpc, rpc, ptt_active, hist>>

\* RigXMLRPC.stop: rpc_server.shutdown() asks serve_forever to end ...
stop_rpc(T) ==
    /\ pc[T] = "stop_rpc"
    /\ xmlrpc' = [xmlrpc EXCEPT !.shutdown_request = TRUE]
    /\ pc' = [pc EXCEPT ![T] = "stop_wait"]
    /\ UNCHANGED <<ptt, gui, radio, faults, outstanding, serial_open, state,
                   previous_rig_dictionary, cmd_queue, reply_queue, unfinished,
                   controller_running, w, rpc, ptt_active, hist>>

\* what shutdown() waits for: serve_forever has ended
ShutdownReturns == xmlrpc.is_shut_down

\* ... and waits until it has; then the join of the server thread (1 second
\* at most) and root.quit()
stop_wait(T) ==
    /\ pc[T] = "stop_wait"
    /\ ShutdownReturns
    /\ pc' = [pc EXCEPT ![T] = "stop_close"]
    /\ UNCHANGED <<ptt, gui, radio, faults, outstanding, serial_open, state,
                   previous_rig_dictionary, cmd_queue, reply_queue, unfinished,
                   controller_running, w, xmlrpc, rpc, ptt_active, hist>>

\* o_serial.close(); stop() returns: the controller thread ends, the main
\* thread is back in the loop of _start_xmlrpc_server
stop_close(T) ==
    /\ pc[T] = "stop_close"
    /\ serial_open' = FALSE
    /\ pc' = [pc EXCEPT ![T] = IF T = "worker" THEN "exited" ELSE "wait"]
    /\ UNCHANGED <<ptt, gui, radio, faults, outstanding, state, previous_rig_dictionary,
                   cmd_queue, reply_queue, unfinished, controller_running, w,
                   xmlrpc, rpc, ptt_active, hist>>

\* ------------------------------------------------------- RigXMLRPC
\* RigXMLRPC.start: serve_forever sees the shutdown request, leaves its loop,
\* clears the request and sets is_shut_down
serve_forever_exit ==
    /\ xmlrpc.thread = "serving"
    /\ xmlrpc.shutdown_request
    /\ xmlrpc' = [thread |-> "ended", shutdown_request |-> FALSE,
                  is_shut_down |-> TRUE]
    /\ UNCHANGED <<ptt, gui, radio, faults, outstanding, serial_open, state,
                   previous_rig_dictionary, cmd_queue, reply_queue, unfinished,
                   controller_running, pc, w, rpc, ptt_active, hist>>

\* (a handler that calls handle_query itself)
run_command_direct(c, cmd) ==
    /\ outstanding' = outstanding \cup {[by |-> c, id |-> 0, req |-> RawRequest[cmd]]}
    /\ UNCHANGED <<ptt, gui, cmd_queue, hist>>

\* run_command, its first statement: self.cmd_queue.put(['command', cmd])
run_command_put(c, cmd) ==
    /\ Put_cmd_queue(<<"command", cmd>>)
    /\ UNCHANGED outstanding

\* rig.command arrives with one of cmds: the handler thread c puts the job,
\* then spins
run_command_with(cmds) ==
    /\ xmlrpc.thread = "serving"
    /\ \E c \in Callers, cmd \in cmds :
          /\ rpc[c].pc = "idle"
          /\ run_command_put(c, cmd)
          /\ rpc' = [rpc EXCEPT ![c].pc = "spin", ![c].id = Len(hist.enq) + 1,
                                ![c].answer = NoAnswer]
    /\ UNCHANGED <<ptt, gui, radio, faults, serial_open, state, previous_rig_dictionary,
                   reply_queue, unfinished, controller_running, pc, w, xmlrpc,
                   ptt_active>>

run_command == run_command_with(RawCommands)

\* while self.rig.reply_queue.empty(): pass; answer = reply_queue.get()
run_command_get ==
    /\ reply_queue # <<>>
    /\ \E c \in Callers :
          /\ rpc[c].pc = "spin"
          /\ rpc' = [rpc EXCEPT ![c].pc = "ack", ![c].answer = Head(reply_queue)]
    /\ reply_queue' = Tail(reply_queue)
    /\ UNCHANGED <<ptt, gui, radio, faults, outstanding, serial_open, state,
                   previous_rig_dictionary, cmd_queue, unfinished,
                   controller_running, pc, w, xmlrpc, ptt_active, hist>>

\* reply_queue.task_done(); the answer is formatted and returned
run_command_task_done ==
    /\ \E c \in Callers :
          /\ rpc[c].pc = "ack"
          /\ rpc' = [rpc EXCEPT ![c].pc = "idle"]
    /\ unfinished' = unfinished - 1
    /\ UNCHANGED <<ptt, gui, radio, faults, outstanding, serial_open, state,
                   previous_rig_dictionary, cmd_queue, reply_queue,
                   controller_running, pc, w, xmlrpc, ptt_active, hist>>

\* what run_command returns for the tuple answer: answer[0]; or the two
\* strings with a space between them; or the first two with a space and the
\* others after commas; 'N' for the empty tuple
run_command_text(answer) ==
    LET part(a, b) == [i \in 1..(b - a + 1) |-> FieldText(answer[a + i - 1])]
    IN  IF Len(answer) = 1 THEN FieldText(answer[1])
        ELSE IF Len(answer) = 2 THEN Joined(part(1, 2), " ")
        ELSE IF Len(answer) > 2
            THEN Joined(part(1, 2), " ") \o <<",">> \o Joined(part(3, Len(answer)), ",")
        ELSE <<"N">>

\* (a driver that keys the transmitter whatever is asked)
CatPtt_job_tx(turn_on) == <<"cat_ptt", "TX">>

\* the job CatPtt.on and CatPtt.off put: ['cat_ptt', 'TX'], ['cat_ptt', 'RX']
CatPtt_job(turn_on) == <<"cat_ptt", IF turn_on = 1 THEN "TX" ELSE "RX">>

\* rig.set_ptt: Cat.set_ptt, CatPtt.on / CatPtt.off put a cat_ptt job
set_ptt ==
    /\ xmlrpc.thread = "serving"
    /\ \E c \in Callers, turn_on \in {0, 1} :
          /\ rpc[c].pc = "idle"
          /\ Put_cmd_queue(CatPtt_job(turn_on))
          /\ ptt_active' = turn_on
    /\ UNCHANGED <<ptt, gui, radio, faults, outstanding, serial_open, state,
                   previous_rig_dictionary, reply_queue, unfinished,
                   controller_running, pc, w, xmlrpc, rpc>>

\* CatPtt.on / CatPtt.off statement by statement, in the handler thread of
\* the caller: first self.job_queue.put(['cat_ptt', ...])
CatPtt_put ==
    /\ xmlrpc.thread = "serving"
    /\ \E c \in Callers, turn_on \in {0, 1} :
          /\ rpc[c].pc = "idle"
          /\ Put_cmd_queue(CatPtt_job(turn_on))
          /\ rpc' = [rpc EXCEPT ![c].pc = "ptt_active", ![c].n = turn_on]
    /\ UNCHANGED <<ptt, gui, radio, faults, outstanding, serial_open, state,
                   previous_rig_dictionary, reply_queue, unfinished,
                   controller_running, pc, w, xmlrpc, ptt_active>>

\* then self.ptt_active = 1 (on) or 0 (off), and the handler returns
CatPtt_assign ==
    /\ \E c \in Callers :
          /\ rpc[c].pc = "ptt_active"
          /\ ptt_active' = rpc[c].n
          /\ rpc' = [rpc EXCEPT ![c] = Rpc0]
    /\ UNCHANGED <<ptt, gui, radio, faults, outstanding, serial_open, state,
                   previous_rig_dictionary, cmd_queue, reply_queue, unfinished,
                   controller_running, pc, w, xmlrpc, hist>>

\* rig.get_mode, rig.get_vfo, ...: rig_d = self.rig.get_dictionary() is
\* Cat.state itself; the handler reads it as it is at that moment (n: the
\* refreshes committed by then)
get_dictionary ==
    /\ xmlrpc.thread = "serving"
    /\ \E c \in Readers :
          /\ rpc[c].pc = "idle"
          /\ rpc' = [rpc EXCEPT ![c].pc = "read", ![c].snap = <<state>>,
                                ![c].n = Len(hist.commits)]
    /\ UNCHANGED <<ptt, gui, radio, faults, outstanding, serial_open, state,
                   previous_rig_dictionary, cmd_queue, reply_queue, unfinished,
                   controller_running, pc, w, xmlrpc, ptt_active, hist>>

\* the handler returns what it read
handler_return ==
    /\ \E c \in Readers :
          /\ rpc[c].pc = "read"
          /\ rpc' = [rpc EXCEPT ![c].pc = "idle", ![c].snap = <<>>, ![c].n = 0]
    /\ UNCHANGED <<ptt, gui, radio, faults, outstanding, serial_open, state,
                   previous_rig_dictionary, cmd_queue, reply_queue, unfinished,
                   controller_running, pc, w, xmlrpc, ptt_active, hist>>

\* MODULATION_DICT['inv']
MODULATION_DICT_inv == "FM" :> "0" @@ "NFM" :> "1" @@ "AM" :> "2"

\* rig_d[data_side][key] as the handlers read it: KeyError when data_side is
\* None
SideField(rig_d, key) ==
    IF rig_d.data_side = None THEN "KeyError" ELSE rig_d[rig_d.data_side][key]

\* rig.set_mode: the modulation job of the data side is put, also when
\* data_side is None; then rig_d[data_side]['modulation'] is returned, which
\* raises KeyError when there is no data side
set_mode ==
    /\ xmlrpc.thread = "serving"
    /\ \E c \in Callers, mode \in {"NFM"} :
          /\ rpc[c].pc = "idle"
          /\ Put_cmd_queue(<<"modulation", state.data_side, MODULATION_DICT_inv[mode]>>)
          /\ rpc' = [rpc EXCEPT ![c].pc = "return",
                                ![c].answer =
                                    [reply |-> <<SideField(state, "modulation")>>,
                                     id |-> 0]]
    /\ UNCHANGED <<ptt, gui, radio, faults, outstanding, serial_open, state,
                   previous_rig_dictionary, reply_queue, unfinished,
                   controller_running, pc, w, xmlrpc, ptt_active>>

\* the frequencies in Hz the clients pass to rig.set_frequency, and
\* float(frequency / 1000000) as the job carries it
RpcFrequencies == {147120000, 128003000, 600000000}

FloatMHz == 147120000 :> "147.12" @@ 128003000 :> "128.003" @@ 600000000 :> "600.0"

\* (limits that every frequency meets)
within_frequency_limits_any(side, hz) == TRUE

\* within_frequency_limits(side, float(frequency / 1000000)): _min <= freq
\* <= _max in MHz, that is in Hz for a whole number of Hz
within_frequency_limits(side, hz) ==
    /\ FREQUENCY_LIMITS[side].min * 1000000 <= hz
    /\ hz <= FREQUENCY_LIMITS[side].max * 1000000

\* rig.set_frequency up to its first put: out of the limits nothing is put;
\* within them the mode job is put when the state says the side is not in
\* VFO (the frequency job follows in a second put), else the frequency job
set_frequency ==
    /\ xmlrpc.thread = "serving"
    /\ \E c \in Callers, hz \in RpcFrequencies :
          LET data_side == state.data_side
              call == [rpc[c] EXCEPT !.snap = <<data_side, FloatMHz[hz]>>]
              Return(x) == [call EXCEPT !.pc = "return",
                                        !.answer = [reply |-> <<x>>, id |-> 0]]
          IN  /\ rpc[c].pc = "idle"
              /\ IF data_side = None
                    THEN /\ rpc' = [rpc EXCEPT ![c] = Return("KeyError")]
                         /\ UNCHANGED <<cmd_queue, hist>>
                 ELSE IF ~within_frequency_limits(data_side, hz)
                    THEN /\ rpc' = [rpc EXCEPT ![c] = Return("")]
                         /\ UNCHANGED <<cmd_queue, hist>>
                 ELSE IF state[data_side].mode # "VFO"
                    THEN /\ Put_cmd_queue(<<"mode", data_side, "0">>)
                         /\ rpc' = [rpc EXCEPT ![c] = [call EXCEPT !.pc = "put"]]
                 ELSE /\ Put_cmd_queue(<<"frequency", data_side, FloatMHz[hz]>>)
                      /\ rpc' = [rpc EXCEPT ![c] = Return("")]
    /\ UNCHANGED <<ptt, gui, radio, faults, outstanding, serial_open, state,
                   previous_rig_dictionary, reply_queue, unfinished,
                   controller_running, pc, w, xmlrpc, ptt_active>>

\* rig.set_frequency, the put after the mode job: the frequency job
set_frequency_put ==
    /\ \E c \in Callers :
          /\ rpc[c].pc = "put"
          /\ Put_cmd_queue(<<"frequency", rpc[c].snap[1], rpc[c].snap[2]>>)
          /\ rpc' = [rpc EXCEPT ![c].pc = "return",
                                ![c].answer = [reply |-> <<"">>, id |-> 0]]
    /\ UNCHANGED <<ptt, gui, radio, faults, outstanding, serial_open, state,
                   previous_rig_dictionary, reply_queue, unfinished,
                   controller_running, pc, w, xmlrpc, ptt_active>>

\* str(int(float(text) * 1000000)) on the frequencies RadioState holds for
\* the radios below; float('None') raises ValueError
HertzText ==
    "146.520" :> "146520000" @@ "446.000" :> "446000000" @@
    "147.120" :> "147120000" @@ "128.003" :> "128002999" @@
    "600.000" :> "600000000"

\* the value rig.get_vfo returns for the dictionary rig_d
get_frequency_value(rig_d) ==
    LET text == SideField(rig_d, "frequency")
    IN  IF text = "KeyError" THEN "KeyError"
        ELSE IF text \in DOMAIN HertzText THEN HertzText[text]
        ELSE "ValueError"

\* the value rig.get_power returns for the dictionary rig_d: power is read
\* from the field 'frequency' of the data side
get_power_value(rig_d) ==
    LET power == SideField(rig_d, "frequency")
    IN  IF power = "KeyError" THEN "KeyError"
        ELSE IF power = "L" THEN "2"
        ELSE IF power = "M" THEN "20"
        ELSE "100"

\* rig.get_vfo, rig.get_mode, rig.get_power: the handler reads RadioState and
\* returns; kept with the answer are the procedure and the dictionary read
getter ==
    /\ xmlrpc.thread = "serving"
    /\ \E c \in Readers, name \in {"get_frequency", "get_mode", "get_power"} :
          /\ rpc[c].pc = "idle"
          /\ rpc' = [rpc EXCEPT
                       ![c].pc = "return",
                       ![c].snap = <<name, state>>,
                       ![c].answer =
                           [reply |-> <<CASE name = "get_frequency" ->
                                                get_frequency_value(state)
                                          [] name = "get_mode" ->
                                                SideField(state, "modulation")
                                          [] name = "get_power" ->
                                                get_power_value(state)>>,
                            id |-> 0]]
    /\ UNCHANGED <<ptt, gui, radio, faults, outstanding, serial_open, state,
                   previous_rig_dictionary, cmd_queue, reply_queue, unfinished,
                   controller_running, pc, w, xmlrpc, ptt_active, hist>>

\* the handler of rig.set_mode or rig.set_frequency returns its answer
setter_return ==
    /\ \E c \in Callers :
          /\ rpc[c].pc = "return"
          /\ rpc' = [rpc EXCEPT ![c] = Rpc0]
    /\ UNCHANGED <<ptt, gui, radio, faults, outstanding, serial_open, state,
                   previous_rig_dictionary, cmd_queue, reply_queue, unfinished,
                   controller_running, pc, w, xmlrpc, ptt_active, hist>>

\* ---------------------------------------------------- specification
Next ==
    \/ send_command
    \/ send_command_reply
    \/ start_gui
    \/ start_xmlrpc_server
    \/ start_timeout
    \/ widget_clicked
    \/ controller_leave
    \/ controller_refresh
    \/ controller_job
    \/ reply_queue_join
    \/ query_write
    \/ query_read
    \/ \E T \in Threads : stop_begin(T)
    \/ \E T \in Threads : stop_rpc(T)
    \/ \E T \in Threads : stop_wait(T)
    \/ \E T \in Threads : stop_close(T)
    \/ serve_forever_exit
    \/ run_command
    \/ run_command_get
    \/ run_command_task_done
    \/ set_ptt
    \/ get_dictionary
    \/ handler_return

Spec == Init /\ [][Next]_vars

\* the steps of the controller thread
controller_thread ==
    \/ controller_leave
    \/ controller_refresh
    \/ controller_job
    \/ reply_queue_join
    \/ query_write
    \/ query_read
    \/ stop_begin("worker")
    \/ stop_rpc("worker")
    \/ stop_wait("worker")
    \/ stop_close("worker")

\* the steps of the main thread once the controller thread is started
main_thread ==
    \/ start_xmlrpc_server
    \/ start_timeout
    \/ stop_begin("main")
    \/ stop_rpc("main")
    \/ stop_wait("main")
    \/ stop_close("main")

\* The threads that run keep running: the controller thread, the main thread
\* in _start_xmlrpc_server, the server thread, the handler threads once they
\* are in a call.  Nothing is assumed of what arrives from outside (clicks,
\* XML-RPC calls, start-up probes).
Fairness ==
    /\ WF_vars(controller_thread)
    /\ WF_vars(main_thread)
    /\ WF_vars(serve_forever_exit)
    /\ WF_vars(run_command_get)
    /\ WF_vars(run_command_task_done)
    /\ WF_vars(handler_return)

FairSpec == Spec /\ Fairness

\* ------------------------------------- the channel jobs, by family
\* the steps of the program around the job put: start-up, the controller
\* thread, stop(), the server thread
ChannelCore ==
    \/ start_gui
    \/ xmlrpc_thread_start
    \/ set_gui_root
    \/ start_timeout
    \/ controller_leave
    \/ controller_refresh
    \/ controller_job
    \/ query_write
    \/ query_read
    \/ \E T \in Threads : stop_begin(T)
    \/ \E T \in Threads : stop_rpc(T)
    \/ \E T \in Threads : stop_wait(T)
    \/ \E T \in Threads : stop_close(T)
    \/ serve_forever_exit

\* side A with the memory record me in channel 010
MemoryRadio(me) == [Radio0("0", "1") EXCEPT !.me["010"] = me]

\* side A in Memory mode; the memory holds a frequency of the band of the
\* VFO of side A, or of another band
MemoryRadios ==
    { MemoryRadio(ME0["010"]),
      MemoryRadio(SetIdx(ME0["010"], 2, "0446000000")) }

\* the channel jobs put on a side in Memory mode
MemoryJobs == { <<"step", "A", "3">> }

MemoryInit == InitWith(MemoryRadios)

MemoryNext ==
    \/ ChannelCore
    \/ Cat_ask
    \/ screen_clicked(MemoryJobs)
    \/ set_mode
    \/ setter_return

MemorySpec == MemoryInit /\ [][MemoryNext]_vars

\* ---- up and down in VFO mode
\* both sides in VFO mode with the channel records foA and foB
VfoRadio(foA, foB) == [Radio0("0", "0") EXCEPT !.fo = "0" :> foA @@ "1" :> foB]

\* the channel record of side s with frequency f and step k
Tuned(s, f, k) == SetIdx(SetIdx(FO0[s], 2, f), 3, k)

\* the sides one step below their upper limits, one step above their lower
\* limits, and in mid-band with the 6.25 kHz step on side A
UpDownRadios ==
    { VfoRadio(Tuned("0", "0523995000", "0"), Tuned("1", "1299975000", "7")),
      VfoRadio(Tuned("0", "0118005000", "0"), Tuned("1", "0136025000", "7")),
      VfoRadio(Tuned("0", "0146520000", "1"), Tuned("1", "0446000000", "7")) }

\* the UP and DOWN buttons of both sides
UpDownJobs == { <<"up", "A">>, <<"down", "A">>, <<"up", "B">>, <<"down", "B">> }

UpDownInit == InitWith(UpDownRadios)

UpDownNext ==
    \/ ChannelCore
    \/ screen_clicked(UpDownJobs)

UpDownSpec == UpDownInit /\ [][UpDownNext]_vars

\* ---- up and down in Memory mode
\* side A in Memory mode on channel 010, with CTRL on side A or on side B
MemoryUpDownRadios ==
    { MemoryRadio(ME0["010"]),
      [MemoryRadio(ME0["010"]) EXCEPT !.bc = <<"1", "0">>] }

MemoryUpDownSpec == InitWith(MemoryUpDownRadios) /\ [][UpDownNext]_vars

\* ---- rev
\* the channel record of side A with frequency f, shift direction d, reverse
\* flag r and offset o
Shifted(f, d, r, o) == SetIdx(SetIdx(SetIdx(SetIdx(FO0["0"], 2, f), 4, d), 5, r), 12, o)

\* every shift direction with two offsets and reverse off or on; and a
\* frequency below its offset
RevRadios ==
    { VfoRadio(Shifted("0146520000", d, r, o), FO0["1"]) :
          d \in {"0", "1", "2"}, r \in {"0", "1"}, o \in {"00600000", "05000000"} }
    \cup { VfoRadio(Shifted("0000500000", d, "0", "00600000"), FO0["1"]) :
              d \in {"1", "2"} }

\* the REV button of side A
RevJobs == { <<"rev", "A">> }

RevInit == InitWith(RevRadios)

RevNext ==
    \/ ChannelCore
    \/ screen_clicked(RevJobs)

RevSpec == RevInit /\ [][RevNext]_vars

\* ---- refresh of a radio that answers short
\* radios whose FO record of side A stops before the modulation field, whose
\* MU record stops before the data fields, and a radio that answers in full
ShortRadios ==
    { Radio0("0", "0"),
      [Radio0("0", "0") EXCEPT !.fo["0"] = SubSeq(FO0["0"], 1, 11)],
      [Radio0("0", "0") EXCEPT !.mu = SubSeq(MU0, 1, 30)] }

RefreshSpec == InitWith(ShortRadios) /\ [][RevNext]_vars

\* ---- menu
\* an MU record with the fields of the menu jobs set
MU1 == [i \in 1..42 |-> IF i = 1 THEN "MU" ELSE IF i - 1 \in {1, 11, 28, 38, 39} THEN "1" ELSE "0"]

\* CTRL and PTT on either side
MenuRadios ==
    { Radio0("0", "0"),
      [Radio0("1", "0") EXCEPT !.mu = MU1],
      [Radio0("0", "0") EXCEPT !.bc = <<"0", "1">>],
      [Radio0("0", "0") EXCEPT !.bc = <<"1", "1">>, !.mu = MU1] }

\* menu jobs put in one behaviour
MaxMenuJobs == 1

\* the menu buttons and popups of the panel, and the two menu jobs no widget
\* of the panel puts (beep, apo)
MenuJobList ==
    { <<"beep", "1">>, <<"vhf_aip">>, <<"uhf_aip">>, <<"speed", "1">>,
      <<"backlight">>, <<"apo", "2">>, <<"data", "0">>, <<"timeout", "1">> }

\* a menu button or popup of the panel puts its job
menu_clicked ==
    /\ Len(hist.enq) < MaxMenuJobs
    /\ screen_clicked(MenuJobList)

MenuNext ==
    \/ ChannelCore
    \/ menu_clicked

MenuSpec == InitWith(MenuRadios) /\ [][MenuNext]_vars

\* ---- tone
\* the channel record of side A with the tone bits b6, b7, b8 and the tone
\* frequencies 100 Hz (Tone), 107.2 Hz (CTCSS) and code 134 (DCS)
Toned(b6, b7, b8) ==
    [i \in 1..14 |->
        CASE i = 7 -> b6 [] i = 8 -> b7 [] i = 9 -> b8
          [] i = 10 -> "12" [] i = 11 -> "14" [] i = 12 -> "023"
          [] OTHER -> FO0["0"][i]]

\* every combination of the three tone bits
ToneRadios ==
    { VfoRadio(Toned(b6, b7, b8), FO0["1"]) :
          b6 \in {"0", "1"}, b7 \in {"0", "1"}, b8 \in {"0", "1"} }

\* the tone popup of side A: TONE_TYPE_DICT['inv']
ToneJobs == { <<"tone", "A", t>> : t \in {"0", "6", "7", "8"} }

ToneInit == InitWith(ToneRadios)

ToneNext ==
    \/ ChannelCore
    \/ screen_clicked(ToneJobs)

ToneSpec == ToneInit /\ [][ToneNext]_vars

\* ---- rig.set_frequency
\* side A, the data side, in VFO mode or in Memory mode
FrequencyRadios == { Radio0("0", "0"), MemoryRadio(ME0["010"]) }

\* the mode popup of side A
ModeJobs == { <<"mode", "A", "1">> }

FrequencyInit == InitWith(FrequencyRadios)

FrequencyNext ==
    \/ ChannelCore
    \/ Cat_ask
    \/ screen_clicked(ModeJobs)
    \/ set_frequency
    \/ set_frequency_put
    \/ setter_return

FrequencySpec == FrequencyInit /\ [][FrequencyNext]_vars

\* ---- rig.command
\* the memory name of channel 010 with a space in it, or without
RawRadios ==
    { Radio0("0", "0"),
      [Radio0("0", "0") EXCEPT !.mn["010"] = "MY RPT"] }

\* the raw strings the clients pass: answered with one field ("?"), with two
\* and with three
RawLines == {"XX", "ID", "MN 010"}

RawInit == InitWith(RawRadios)

RawNext ==
    \/ ChannelCore
    \/ reply_queue_join
    \/ run_command_with(RawLines)
    \/ run_command_get
    \/ run_command_task_done

RawSpec == RawInit /\ [][RawNext]_vars

\* ---- the PTT driver at start-up
\* Ptt(ptt_method, ...) of ptt710 or Cat(serial_port, ptt_pin, ...) is about
\* to be constructed, with any method under any start-up conditions
PttInit ==
    Constructed({Radio0("0", "0")},
                [pc : {"new"}, class : {"Ptt", "Cat"}, method : DOMAIN PttMethod,
                 env : PttEnvs, exc : {""}, obj : {NoPtt}, read : {-1}])

\* the constructor runs: the object is made, or the constructor raises
Ptt_construct ==
    /\ ptt.pc = "new"
    /\ LET made == IF ptt.class = "Ptt" THEN Ptt_init(ptt.method, ptt.env)
                   ELSE Cat_init(ptt.method, ptt.env)
       IN  ptt' = [ptt EXCEPT !.pc = IF made.exc = "" THEN "made" ELSE "raised",
                              !.exc = made.exc, !.obj = made.obj]
    /\ UNCHANGED <<gui, radio, faults, outstanding, serial_open, state,
                   previous_rig_dictionary, cmd_queue, reply_queue, unfinished,
                   controller_running, pc, w, xmlrpc, rpc, ptt_active, hist>>

\* self.ptt.value of each class
value(obj) ==
    CASE obj["class"] = "CatPtt" -> ptt_active
      [] obj["class"] = "DigirigPtt" -> obj["rts"]
      [] obj["class"] = "CM108Ptt" -> obj["ptt_active"]
      [] obj["class"] = "GPIOPtt" -> obj["value"]

\* Ptt.state, Cat.get_ptt: 0 if self.ptt is None, else self.ptt.value
Ptt_state ==
    /\ ptt.pc = "made"
    /\ ptt' = [ptt EXCEPT !.read = IF ptt.obj["class"] = None THEN 0 ELSE value(ptt.obj)]
    /\ UNCHANGED <<gui, radio, faults, outstanding, serial_open, state,
                   previous_rig_dictionary, cmd_queue, reply_queue, unfinished,
                   controller_running, pc, w, xmlrpc, rpc, ptt_active, hist>>

\* Ptt.state = turn_on, Cat.set_ptt(turn_on): nothing if self.ptt is None,
\* else on() or off() of the class.  CatPtt puts a cat_ptt job; CM108Ptt
\* opens the device and writes, and the open or the write can fail.
Ptt_state_set(turn_on) ==
    /\ ptt.pc = "made"
    /\ LET class == ptt.obj["class"]
       IN  CASE class = None ->
                   UNCHANGED <<ptt, cmd_queue, hist, ptt_active>>
             [] class = "CatPtt" ->
                   /\ Put_cmd_queue(CatPtt_job(turn_on))
                   /\ ptt_active' = turn_on
                   /\ UNCHANGED ptt
             [] class = "DigirigPtt" ->
                   /\ ptt' = [ptt EXCEPT !.obj["rts"] = turn_on]
                   /\ UNCHANGED <<cmd_queue, hist, ptt_active>>
             [] class = "GPIOPtt" ->
                   /\ ptt' = [ptt EXCEPT !.obj["value"] = turn_on]
                   /\ UNCHANGED <<cmd_queue, hist, ptt_active>>
             [] class = "CM108Ptt" ->
                   /\ \E opened \in BOOLEAN, wrote \in BOOLEAN :
                         ptt' = [ptt EXCEPT !.obj["ptt_active"] =
                                    IF ~opened THEN @
                                    ELSE IF wrote THEN turn_on
                                    ELSE IF turn_on = 1 THEN 0 ELSE @]
                   /\ UNCHANGED <<cmd_queue, hist, ptt_active>>
    /\ UNCHANGED <<gui, radio, faults, outstanding, serial_open, state,
                   previous_rig_dictionary, reply_queue, unfinished,
                   controller_running, pc, w, xmlrpc, rpc>>

PttNext ==
    \/ Ptt_construct
    \/ Ptt_state
    \/ \E turn_on \in {0, 1} : Ptt_state_set(turn_on)

PttSpec == PttInit /\ [][PttNext]_vars

\* ------------------------------------------------------- properties
Range(s) == {s[i] : i \in DOMAIN s}

\* a thread is inside Controller.stop
StopStates == {"stop", "stop_rpc", "stop_wait", "stop_close"}

\* the controller thread is inside its while loop
InLoop == pc.worker \in {"loop", "send", "recv", "join"}

\* the controller thread is inside update_dictionary or run_job
InFlight == pc.worker \in {"send", "recv", "join"}

FifoOrder ==
    /\ hist.begun = [k \in 1..Len(hist.begun) |-> k]
    /\ \A k \in 1..Len(hist.finished) - 1 : hist.finished[k] < hist.finished[k + 1]

Pending(i) == Len(hist.enq) >= i /\ i \notin Range(hist.begun) /\ InLoop

C3_AtomicRefresh ==
    (w.act = Refresh /\ w.out = "fail") => state = w.before

\* C4 as stated: what a handler thread reads through get_dictionary is the
\* state as it was after a completed refresh: the one before the refresh
\* under way at the read, or the one that refresh then committed.
C4_ReaderSeesCommitted ==
    \A c \in Readers :
       (rpc[c].snap # <<>> /\ Len(hist.commits) > rpc[c].n) =>
          \/ rpc[c].n > 0 /\ rpc[c].snap[1] = hist.commits[rpc[c].n]
          \/ rpc[c].n = 0 /\ rpc[c].snap[1] = State0
          \/ rpc[c].snap[1] = hist.commits[rpc[c].n + 1]

\* C5 as stated: a handler thread of rig.command takes from the reply queue
\* the reply of its own command, and a raw command is written to the radio
\* only when every earlier reply was taken and acknowledged.
C5_OwnReply ==
    /\ \A c \in Callers : rpc[c].pc = "ack" => rpc[c].answer.id = rpc[c].id
    /\ \A o \in outstanding :
          (o.id > 0 /\ hist.enq[o.id][1] = "command") => unfinished = 0

\* C6 as stated: a job with an exchange that got no reply ends with run_job
\* returning [] at that exchange, and the worker goes on to stop().
C6_FailedExchangeFailsJob ==
    \A i \in hist.failed :
       /\ w.id = i
       /\ w.out = "fail"
       /\ pc.worker \in StopStates \cup {"exited"}

\* C7 as stated: a job with an exchange the radio answered with "?" is not
\* reported finished.
C7_UnsupportedFailsJob ==
    \A i \in hist.unsupported : i \notin Range(hist.finished)

\* stop() has been invoked
StopInvoked == \E T \in Threads : pc[T] \in StopStates

\* C8 as stated: once stop() is invoked the serial port is eventually closed.
C8_StopClosesPort == StopInvoked ~> ~serial_open

\* C9: once a quit job is dequeued it is the last job dequeued, no request
\* was written for it, and the worker is in stop() or has ended after it.
C9_QuitEndsLoop ==
    \A k \in 1..Len(hist.begun) :
       hist.enq[hist.begun[k]] = <<"quit">> =>
          /\ k = Len(hist.begun)
          /\ hist.begun[k] \notin hist.exchanged
          /\ pc.worker \in StopStates \cup {"exited"}

\* C9, its case: the quit job was dequeued with a job queued behind it, and
\* the worker has run stop() to its end
C9_Witness ==
    /\ \E k \in 1..Len(hist.begun) : hist.enq[hist.begun[k]] = <<"quit">>
    /\ cmd_queue # <<>>
    /\ pc.worker = "exited"

\* one step seen from the worker loop
C10_Step ==
    /\ (pc.worker = "loop" /\ pc'.worker = "send" /\ w'.act = Refresh) =>
          cmd_queue = <<>>
    /\ hist'.begun # hist.begun =>
          /\ pc.worker = "loop"
          /\ cmd_queue # <<>>
          /\ hist'.begun = Append(hist.begun, Head(cmd_queue).id)
          /\ cmd_queue' = Tail(cmd_queue)
    /\ (InFlight /\ pc'.worker \in {"send", "recv", "join"}) =>
          w'.act = w.act /\ w'.id = w.id
    /\ \A o \in outstanding' :
          o.by = "worker" => o.id = w'.id /\ pc'.worker = "recv"
    /\ hist'.exchanged # hist.exchanged =>
          hist'.exchanged = hist.exchanged \cup {w.id}

\* C10: a pass of the worker loop starts a refresh only with the queue
\* empty, or dequeues exactly one job, the oldest; until the refresh or the
\* job has ended the worker stays with it, and every request written is a
\* request of it.
C10_OneAtATime == [][C10_Step]_vars

\* C10, its case: a request of the first job is outstanding, after a
\* committed refresh, with the second job waiting in the queue
C10_Witness ==
    /\ pc.worker = "recv"
    /\ w.id = 1
    /\ Len(hist.commits) > 0
    /\ cmd_queue # <<>>

\* ---------------------------------------------- the channel jobs
\* a record written by the job the controller thread is running
Written(o, cmd, n) == o.by = "worker" /\ o.id = w.id /\ o.req[1] = cmd /\ Len(o.req) = n

\* the kind of the job the controller thread is running
JobKind == IF w.act = <<>> THEN "" ELSE Idx(w.act, 0)

\* the job the controller thread is running is a channel job
InChannelJob == JobKind \in ChannelJobs

\* C11: a memory-write request (ME with fields) is on the wire for a channel
\* job only if the user was shown the confirmation prompt for that job and
\* answered Yes / OK.
C11_MemoryWriteConfirmed ==
    \A o \in outstanding :
        (InChannelJob /\ Written(o, "ME", 17)) => (w.prompted /\ w.answer = "True")

\* the record of the memory with the job applied, for the jobs of MemoryJobs
\* and of set_mode
Applied(job, rec) ==
    IF Idx(job, 0) = "step" THEN SetIdx(rec, 3, Idx(job, 2))
    ELSE SetIdx(rec, 13, Idx(job, 2))

\* one step of a job whose prompt was answered No or Cancel
C12_Step ==
    LET s == SIDE_DICT_inv[Idx(w.act, 1)]
        me == radio.me[radio.mr[s]]
    IN  /\ (pc.worker = "ask" /\ pc'.worker = "loop") =>
              /\ hist'.finished = Append(hist.finished, w.id)
              /\ outstanding' = outstanding
              /\ radio' = radio
              /\ w.id \notin hist.unsupported => radio.vm[s] = "1"
        /\ (pc.worker = "ask" /\ w'.answer = "False") =>
              /\ pc'.worker = "send"
              /\ w'.req = <<"VM", s, "0">>
        /\ (w.answer = "False" /\ pc.worker = "send" /\ pc'.worker = "recv") =>
              \/ w.lab = "no_vm0" /\ w.req = <<"VM", s, "0">>
              \/ w.lab = "last" /\ w.req = <<"FO", s>> \o SubSeq(Applied(w.act, me), 3, 14)
        /\ (w.answer = "False" /\ w.lab = "last" /\ pc.worker = "recv"
              /\ pc'.worker # "recv") =>
              pc'.worker \in {"loop", "stop"}

\* C12: after No the job sends VM <side>,0 and then one FO for the side with
\* the fields of the memory and the change applied, and ends; after Cancel
\* (or a non-OK answer of the OK/Cancel prompt) nothing more is sent, the
\* job counts as finished and, the radio having executed the job's mode
\* switches, the side is in Memory mode.
C12_DeclineCopiesCancelDrops == [][C12_Step]_vars

\* C12, its case: after No the FO carrying the memory's fields is on the wire
\* with the side switched to VFO
C12_Witness ==
    /\ w.prompted /\ w.answer = "False"
    /\ radio.vm["0"] = "0"
    /\ \E o \in outstanding : Written(o, "FO", 14)

\* the limits of the sides in Hz: A 118-524 MHz, B 136-1300 MHz
InBand(side, field) ==
    LET n == IntOf(field)
        lo == IF side = "A" THEN 118000000 ELSE 136000000
        hi == IF side = "A" THEN 524000000 ELSE 1300000000
    IN  n.exc = "" /\ lo <= n.v /\ n.v <= hi

\* C13: an up or down job on a side in VFO mode never sends an FO whose
\* frequency is outside the limits of the side, and the frequency the radio
\* holds for a side never leaves them: a step that would is not sent.
C13_UpDownWithinLimits ==
    /\ \A o \in outstanding :
          (JobKind \in {"up", "down"} /\ Written(o, "FO", 14)) =>
              InBand(Idx(w.act, 1), o.req[3])
    /\ \A s \in Sides : InBand(SIDE_DICT_map[s], radio.fo[s][3])

\* C13, its case: side A one step below 524 MHz, two up jobs finished: the
\* first stepped to the limit, the second sent nothing
C13_Witness ==
    /\ hist.enq = << <<"up", "A">>, <<"up", "A">> >>
    /\ hist.finished = <<1, 2>>
    /\ faults = 0
    /\ hist.start.fo["0"][3] = "0523995000"
    /\ radio.fo["0"][3] = "0524000000"

\* C14: two rev jobs run on side A, each record sent having been stored by
\* the radio, leave the frequency field and the reverse flag as they were at
\* the start.
C14_RevTwiceRestores ==
    (hist.enq = << <<"rev", "A">>, <<"rev", "A">> >> /\ hist.finished = <<1, 2>>
        /\ hist.unsupported = {}) =>
        /\ radio.fo["0"][3] = hist.start.fo["0"][3]
        /\ radio.fo["0"][6] = hist.start.fo["0"][6]

\* C14, its case: shift minus with a frequency below the offset (the
\* reversed frequency is negative), both rev jobs stored
C14_Witness ==
    /\ hist.enq = << <<"rev", "A">>, <<"rev", "A">> >>
    /\ hist.finished = <<1, 2>>
    /\ hist.unsupported = {}
    /\ hist.start.fo["0"][3] = "0000500000"
    /\ hist.start.fo["0"][5] = "2"

\* the tone bits of a record, the type they stand for by priority, and the
\* bits of a type
ToneBits(rec) == <<rec[7], rec[8], rec[9]>>

PriorityType(rec) ==
    IF rec[7] = "1" THEN "6" ELSE IF rec[8] = "1" THEN "7"
    ELSE IF rec[9] = "1" THEN "8" ELSE "0"

BitsOf(t) ==
    <<IF t = "6" THEN "1" ELSE "0", IF t = "7" THEN "1" ELSE "0",
      IF t = "8" THEN "1" ELSE "0">>

AtMostOneBit(rec) == Cardinality({i \in 7..9 : rec[i] = "1"}) <= 1

\* a tone job has written the record o for a side in VFO mode
ToneWrite(o) == JobKind = "tone" /\ Written(o, "FO", 14)

\* C15: the record a tone job sends when the requested type is not the
\* current one has exactly the bit of the requested type on (none for No
\* Tone); and a record read with at most one bit on is sent with at most
\* one bit on.
C15_ToneBitsExclusive ==
    \A o \in outstanding :
        ToneWrite(o) =>
            LET rec == radio.fo[o.req[2]]
            IN  /\ PriorityType(rec) # Idx(w.act, 2) =>
                      ToneBits(o.req) = BitsOf(Idx(w.act, 2))
                /\ AtMostOneBit(rec) => AtMostOneBit(o.req)

\* C15, its case: Tone and CTCSS both on in the record read, DCS requested:
\* the record sent has the DCS bit alone
C15_Witness ==
    \E o \in outstanding :
        /\ ToneWrite(o)
        /\ ToneBits(radio.fo[o.req[2]]) = <<"1", "1", "0">>
        /\ Idx(w.act, 2) = "8"
        /\ ToneBits(o.req) = <<"0", "0", "1">>

\* C16: the record a tone job sends when it switches to another type has
\* the frequency field of the new type (three fields up from its bit) set
\* to the first entry of the table: 00 for Tone and CTCSS, 000 for DCS.
C16_NewToneFrequencyReset ==
    \A o \in outstanding :
        (ToneWrite(o) /\ Idx(w.act, 2) # "0"
            /\ PriorityType(radio.fo[o.req[2]]) # Idx(w.act, 2)) =>
            Idx(o.req, TONE_TYPE_int[Idx(w.act, 2)] + 3) =
                (IF Idx(w.act, 2) = "8" THEN "000" ELSE "00")

\* C17: once the refresh has decoded the channel record of a side, the tone
\* stored for the side is Tone if the Tone bit is on, else CTCSS if the CTCSS
\* bit is on, else DCS if the DCS bit is on, else No Tone, and the tone
\* frequency stored is the entry of that type's table for field 9, 10 or 11
\* (blank for No Tone).
C17_ToneDecodedByPriority ==
    (pc.worker \in {"send", "recv"} /\ w.act = Refresh /\ w.lab = "PC") =>
        LET rec == radio.fo[w.s]
            st == state[SIDE_DICT_map[w.s]]
        IN  /\ st.tone = (IF rec[7] = "1" THEN "Tone" ELSE IF rec[8] = "1" THEN "CTCSS"
                          ELSE IF rec[9] = "1" THEN "DCS" ELSE "No Tone")
            /\ st.tone_frequency =
                  (CASE st.tone = "Tone" -> pll_frequency_dict[rec[10]]
                     [] st.tone = "CTCSS" -> pll_frequency_dict[rec[11]]
                     [] st.tone = "DCS" -> dcs_frequency_dict[rec[12]]
                     [] OTHER -> " ")

\* C17, its case: CTCSS and DCS both on, decoded as CTCSS 107.2
C17_Witness ==
    /\ pc.worker = "send" /\ w.act = Refresh /\ w.lab = "PC" /\ w.s = "0"
    /\ ToneBits(radio.fo["0"]) = <<"0", "1", "1">>
    /\ state.A.tone = "CTCSS"
    /\ state.A.tone_frequency = "107.2"

\* the target of a frequency job in Hz, ten digits
TargetField == "147.12" :> "0147120000" @@ "128.003" :> "0128003000"

\* C18: the FO a frequency job sends for a side in VFO mode has the target
\* in field 2 and every other field as the record read has it.
C18_OnlyFrequencyChanged ==
    \A o \in outstanding :
        (JobKind = "frequency" /\ Written(o, "FO", 14) /\ w.answer = "") =>
            /\ o.req[3] = TargetField[Idx(w.act, 2)]
            /\ \A i \in (1..14) \ {3} : o.req[i] = radio.fo[o.req[2]][i]

\* the targets out of the limits of side A, as the handler keeps them
OutOfBandA == {"600.0"}

\* one step of a handler of rig.set_frequency called with a target out of
\* the limits of the data side
C19_Step ==
    \A c \in Callers :
        (rpc[c].pc = "idle" /\ rpc'[c].pc # "idle" /\ Len(rpc'[c].snap) = 2
            /\ rpc'[c].snap[1] = "A" /\ rpc'[c].snap[2] \in OutOfBandA) =>
            /\ cmd_queue' = cmd_queue
            /\ hist'.enq = hist.enq
            /\ rpc'[c].pc = "return"
            /\ rpc'[c].answer.reply = <<"">>

\* C19: rig.set_frequency with a target out of the limits of the data side
\* puts no job and returns the empty string.
C19_OutOfBandIgnored == [][C19_Step]_vars

\* C19, its case: the call with 600 MHz is about to return '', the queue
\* never having held a job
C19_Witness ==
    \E c \in Callers :
        /\ rpc[c].pc = "return"
        /\ rpc[c].snap = <<"A", "600.0">>
        /\ rpc[c].answer.reply = <<"">>
        /\ hist.enq = <<>>

\* C20: a frequency job of rig.set_frequency is applied with the side in VFO
\* mode: it reads and writes the channel record of the VFO, never a memory
\* (no exchange of the run having failed).
C20_FrequencyAppliedInVfo ==
    (faults = 0 /\ JobKind = "frequency") =>
        /\ w.lab \notin {"ga_mr", "me_vm0", "me_fo", "me_vm1", "ask", "no_vm0"}
        /\ \A o \in outstanding : o.by = "worker" => o.req[1] # "ME"

\* ------------------------------------------------- the raw commands
\* a text without its last character
Chopped(text) == SubSeq(text, 1, Len(text) - 1)

\* C21 as stated: the tuple query() makes of the reply line "<opcode>
\* <f1>,...,<fn>" + CR is (opcode, f1, ..., fn) with every field as the radio
\* sent it: each reply a command job puts on the reply queue is the tuple of
\* the fields of the line the radio sent.
C21_FieldsRecovered ==
    \A k \in 1..Len(reply_queue) : reply_queue[k].reply = reply_queue[k].sent

\* C22 as stated: the text rig.command returns to its caller is the line the
\* radio sent in reply to the caller's command, without the carriage return.
C22_LiteralReply ==
    \A c \in Callers :
       rpc[c].pc = "ack" =>
          /\ rpc[c].answer.id = rpc[c].id
          /\ run_command_text(rpc[c].answer.reply) = Chopped(ReplyLine(rpc[c].answer.sent))

\* ----------------------------------------------------- the PTT driver
\* the driver module or the device of the method is unavailable
Unavailable ==
    LET kind == PttMethod[ptt.method]
    IN  \/ kind = "cm108" /\ (~ptt.env.hid \/ ~ptt.env.found \/ ~ptt.env.opens)
        \/ kind = "digirig@" /\ ~ptt.env.serial
        \/ kind = "gpio" /\ (~ptt.env.gpiozero \/ ~ptt.env.pins)

\* C23 as stated: with the driver module or the device of the method
\* unavailable the PTT initialisation ends without an exception and leaves
\* ptt None; reading the PTT state then gives 0 and setting it does nothing.
C23_DegradesToNoPtt ==
    (Unavailable /\ ptt.pc # "new") =>
        /\ ptt.pc = "made"
        /\ ptt.obj["class"] = None
        /\ ptt.read \in {-1, 0}
        /\ cmd_queue = <<>> /\ ptt_active = 0

\* one step seen from the CAT PTT driver
C24_Step ==
    LET n == Len(hist.enq)
        put == Len(hist'.enq) > n /\ hist'.enq[n + 1][1] = "cat_ptt"
    IN  /\ (put \/ ptt_active' # ptt_active) =>
              /\ outstanding' = outstanding
              /\ radio' = radio
              /\ \E on \in BOOLEAN :
                    LET job == <<"cat_ptt", IF on THEN "TX" ELSE "RX">>
                    IN  /\ hist'.enq = Append(hist.enq, job)
                        /\ cmd_queue' = Append(cmd_queue, [job |-> job, id |-> n + 1])
                        /\ ptt_active' = IF on THEN 1 ELSE 0
        /\ \A o \in outstanding' \ outstanding :
              (o.by = "worker" /\ o.id > 0 /\ hist.enq[o.id][1] = "cat_ptt") =>
                  /\ o.req = <<hist.enq[o.id][2]>>
                  /\ \A j \in 1..(o.id - 1) : j \in Range(hist.finished)

C25_CommandReturns ==
    \A c \in Callers : (rpc[c].pc = "spin") ~> (rpc[c].pc # "spin")

\* the number of fields update_dictionary reads of the reply to each of its
\* queries (the highest index it reads, and one)
FieldsRead ==
    "BC" :> 3 @@ "VM" :> 3 @@ "MR" :> 3 @@ "FO" :> 14 @@ "MN" :> 3 @@
    "PC" :> 3 @@ "MU" :> 40 @@ "LK" :> 2

\* no reply, and the replies that stop before field n
ShortOf(reply, n) == { SubSeq(reply, 1, k) : k \in 0..(IF n - 1 < Len(reply) THEN n - 1 ELSE Len(reply)) }

FailedRefresh == w.act = Refresh /\ w.out \in {"fail", "IndexError"}

C26_Step ==
    /\ (pc.worker = "recv" /\ w.act = Refresh) =>
           \A o \in outstanding :
              o.by = "worker" =>
                 \A short \in ShortOf(query(ReplyLine(RadioAnswer(radio, o.req).reply)),
                                      FieldsRead[w.lab]) :
                    UdReply(w, short, state).out \in {"fail", "IndexError"}
    /\ (~FailedRefresh /\ FailedRefresh') => pc'.worker = "stop"
    /\ FailedRefresh =>
           /\ pc'.worker \in StopStates \cup {"exited"}
           /\ w' = w
           /\ hist'.begun = hist.begun
           /\ hist'.commits = hist.commits
           /\ \A o \in outstanding' : o.by = "worker" => o \in outstanding
    /\ (pc.worker = "stop" /\ pc'.worker # "stop") => ~controller_running'

\* C26: a refresh one of whose queries gets no reply, or a reply that stops
\* before a field the refresh reads, is given up; the worker goes to its
\* call of stop(), which clears controller_running, and begins no further
\* refresh and no job afterwards.
C26_FailedRefreshStops == [][C26_Step]_vars

\* a refresh given up at the FO record that stops before its modulation field,
\* and stop() called
C26_Witness ==
    /\ FailedRefresh
    /\ w.out = "IndexError"
    /\ w.lab = "FO"
    /\ Len(radio.fo["0"]) = 11
    /\ faults = 0
    /\ ~controller_running
    /\ pc.worker = "stop_wait"

\* MENU_DICT[name]['index'], and the indexes run_job writes for data, speed
\* and timeout
MenuIndex ==
    "beep" :> 1 @@ "vhf_aip" :> 11 @@ "uhf_aip" :> 12 @@ "timeout" :> 16 @@
    "backlight" :> 28 @@ "apo" :> 37 @@ "data" :> 38 @@ "speed" :> 39

\* the record read with the field of the job at the requested value (beep,
\* apo, data, speed, timeout), at the other value than the one read (vhf_aip,
\* uhf_aip) or at the other colour than the one the panel shows (backlight)
MenuExpected(job, read, st) ==
    LET i == MenuIndex[Head(job)]
    IN  SetIdx(read, i,
               IF Len(job) > 1 THEN job[2]
               ELSE IF Head(job) = "backlight"
                   THEN (IF st.backlight = "green" THEN "0" ELSE "1")
               ELSE IF Idx(read, i) = "1" THEN "0" ELSE "1")

\* the worker has sent the MU record of the menu job j and awaits the reply
MenuResent(j) ==
    /\ w.act = j
    /\ pc.worker = "recv"
    /\ \E o \in outstanding :
          o.by = "worker" /\ Head(o.req) = "MU" /\ Len(o.req) = Len(radio.mu)

\* C27 as stated: the MU record a menu job resends is the record read with the
\* field at the job's index at the requested or toggled value and every other
\* field as read.
C27_MenuFieldSet ==
    \A j \in MenuJobList :
       MenuResent(j) =>
          \A o \in outstanding :
             (o.by = "worker" /\ Head(o.req) = "MU") => o.req = MenuExpected(j, radio.mu, state)

\* the requests the worker writes in this step
SentNow == { o.req : o \in { x \in outstanding' \ outstanding : x.by = "worker" } }

Opposite(side) == IF side = "0" THEN "1" ELSE "0"

\* the exchanges of a data job, in their order
DataOrder ==
    { <<"", "mu_get">>, <<"mu_get", "mu_set">>, <<"mu_set", "d_bc">>,
      <<"d_bc", "d_t1">>, <<"d_t1", "d_t2">> }

C28_Step ==
    LET before == hist.start.bc
        data(act) == act # Refresh /\ act # <<>> /\ Head(act) = "data"
    IN  hist'.unsupported = {} =>
           /\ data(w'.act) =>
                 /\ w'.lab # w.lab => <<w.lab, w'.lab>> \in DataOrder
                 /\ \A req \in SentNow :
                       CASE w'.lab = "mu_get" -> req = <<"MU">>
                         [] w'.lab = "mu_set" -> Head(req) = "MU" /\ Len(req) > 1
                         [] w'.lab = "d_bc" -> req = <<"BC">>
                         [] w'.lab = "d_t1" ->
                               req = <<"BC", Opposite(before[1]), before[2]>>
                         [] w'.lab = "d_t2" ->
                               /\ req = <<"BC", before[1], before[2]>>
                               /\ radio.bc = <<Opposite(before[1]), before[2]>>
                         [] OTHER -> FALSE
           /\ (data(w.act) /\ hist'.finished # hist.finished) =>
                 /\ w.lab = "d_t2"
                 /\ radio'.bc = before

\* C28: a data job that succeeds writes MU, reads BC and then writes BC
\* exactly twice: first with CTRL on the side opposite to the one holding it,
\* then with CTRL back, both with the PTT side as it was; when the job
\* finishes CTRL and PTT are where they were before it.  (Success is taken
\* as: the radio has answered none of the job's commands with "?", which
\* run_job does not tell from an answer.)
C28_CtrlThereAndBack == [][C28_Step]_vars

\* the data job finished on a radio with CTRL and PTT on side B
C28_Witness ==
    /\ hist.enq = << <<"data", "0">> >>
    /\ hist.finished = <<1>>
    /\ hist.start.bc = <<"1", "1">>
    /\ radio.bc = <<"1", "1">>
    /\ hist.unsupported = {}
    /\ Idx(hist.start.mu, 38) = "1"
    /\ Idx(radio.mu, 38) = "0"

\* the steps of STEP_DICT in Hz
StepOfCode ==
    "0" :> 5000 @@ "1" :> 6250 @@ "2" :> 8330 @@ "3" :> 10000 @@
    "4" :> 12500 @@ "5" :> 15000 @@ "6" :> 20000 @@ "7" :> 25000 @@
    "8" :> 30000 @@ "9" :> 50000 @@ "A" :> 100000

\* the frequency one step up or down from the one the radio holds on the side
\* of job
SteppedFrequency(job) ==
    LET rec == radio.fo[SIDE_DICT_inv[job[2]]]
        step == StepOfCode[Idx(rec, 3)]
    IN  IntOf(Idx(rec, 2)).v + (IF job[1] = "down" THEN 0 - step ELSE step)

\* C29 as stated: an up or down job on a side in VFO mode whose stepped
\* frequency is within the limits of the side completes, whatever the step of
\* the side, and the FO it sends has the frequency one step further, reverse
\* off, and the shift and offset of the new frequency.
C29_EveryStepApplied ==
    \A job \in UpDownJobs :
       ( /\ w.act = job
         /\ faults = 0
         /\ radio.vm[SIDE_DICT_inv[job[2]]] = "0"
         /\ within_limits(job[2], SteppedFrequency(job)) ) =>
          /\ w.out = ""
          /\ \A o \in outstanding :
                (o.by = "worker" /\ Head(o.req) = "FO" /\ Len(o.req) > 2) =>
                   /\ IntOf(Idx(o.req, 2)).v = SteppedFrequency(job)
                   /\ Idx(o.req, 5) = "0"
                   /\ Idx(o.req, 4) = frequency_shifts(SteppedFrequency(job))[1]
                   /\ Idx(o.req, 12) = frequency_shifts(SteppedFrequency(job))[2]

\* MEMORY_LIMITS
MEMORY_LIMITS == [min |-> 0, max |-> 999]

\* the channel numbers next to the ones the radios hold, as the radio writes
\* them (three digits)
Format03d ==
    9 :> "009" @@ 10 :> "010" @@ 11 :> "011" @@ 19 :> "019" @@ 20 :> "020" @@ 21 :> "021"

\* the channel one up or down from the one the side of job is on, kept within
\* MEMORY_LIMITS
TargetChannel(job) ==
    LET now == CHOOSE n \in DOMAIN Format03d : Format03d[n] = radio.mr[SIDE_DICT_inv[job[2]]]
        to == IF job[1] = "down" THEN now - 1 ELSE now + 1
    IN  IF to < MEMORY_LIMITS.min THEN MEMORY_LIMITS.min
        ELSE IF to > MEMORY_LIMITS.max THEN MEMORY_LIMITS.max
        ELSE to

\* C30 as stated: an up or down job on a side in Memory mode, having read the
\* mode, the channel number and the memory of the side, writes nothing but the
\* selection by number of the channel one up or one down.
C30_MemoryReselected ==
    \A job \in UpDownJobs :
       LET s == SIDE_DICT_inv[job[2]]
       IN  (w.act = job /\ radio.vm[s] = "1") =>
              \A o \in outstanding :
                 o.by = "worker" =>
                    o.req \in { <<"VM", s>>, <<"MR", s>>, <<"ME", radio.mr[s]>>,
                                <<"MR", s, Format03d[TargetChannel(job)]>> }


\* ------------------------------------------------- the ch_number job
\* side A in Memory mode on channel 010, side B in VFO mode; channels 010 and
\* 020 hold a memory, channel 030 is empty
ChNumberRadios == { MemoryRadio(ME0["010"]) }

\* the channel dialog of side A with a channel that holds a memory and with
\* an empty one, and the mode button that takes side A to VFO before the
\* panel is refreshed
ChNumberJobs ==
    { <<"ch_number", "A", "020">>, <<"ch_number", "A", "030">>, <<"mode", "A", "0">> }

ChNumberNext ==
    \/ ChannelCore
    \/ screen_clicked(ChNumberJobs)

ChNumberSpec == InitWith(ChNumberRadios) /\ [][ChNumberNext]_vars

\* the ch_number job of the worker has just received the reply to the
\* exchange lab
ChNumberAt(lab) ==
    /\ pc.worker = "recv"
    /\ pc'.worker # "recv"
    /\ JobKind = "ch_number"
    /\ w.lab = lab

\* the MR command that selects the channel of the job
ChNumberRecall == <<"MR", SIDE_DICT_inv[Idx(w.act, 1)], Idx(w.act, 2)>>

C31_Step ==
    /\ (ChNumberAt("ga_rec") /\ radio.vm[SIDE_DICT_inv[Idx(w.act, 1)]] = "1"
            /\ hist'.unsupported = hist.unsupported /\ hist'.failed = hist.failed)
        => /\ pc'.worker = "send"
           /\ w'.req = ChNumberRecall
    /\ (ChNumberAt("ch_mr") /\ radio.me = radio'.me /\ Idx(w.act, 2) \notin DOMAIN radio.me
            /\ hist'.failed = hist.failed /\ hist'.unsupported = hist.unsupported)
        => /\ w.id \in hist'.errors
           /\ hist'.finished = Append(hist.finished, w.id)
           /\ pc'.worker = "loop"
    /\ (JobKind = "ch_number" /\ radio.vm[SIDE_DICT_inv[Idx(w.act, 1)]] # "1")
        => \A req \in SentNow : req[1] # "MR"

\* C31: a ch_number job on a side in Memory mode, once the radio has answered
\* its reads, sends MR <side>,<channel>; when the radio answers that the
\* memory is empty (N) an ERROR message is put on the message queue, the job
\* is finished and not failed and the worker goes back to its loop; on a side
\* that is not in Memory mode the job sends no MR command.
C31_ChNumber == [][C31_Step]_vars

\* an ERROR message was put for a ch_number job to the empty channel, the
\* job is finished and the worker is back in its loop
C31_Witness ==
    /\ hist.errors # {}
    /\ \E i \in hist.errors :
          /\ hist.enq[i] = <<"ch_number", "A", "030">>
          /\ \E k \in DOMAIN hist.finished : hist.finished[k] = i
    /\ pc.worker = "loop"


\* ------------------------------------- the channel jobs in Weather mode
\* side A in Weather mode, with CTRL on side A or on side B
WeatherRadios == { Radio0("0", "3"), Radio0("1", "3") }

\* one job of each kind for side A
WeatherJobs ==
    { <<"frequency", "A", "147.12">>, <<"modulation", "A", "1">>,
      <<"step", "A", "3">>, <<"tone", "A", "6">>,
      <<"tone_frequency", "A", "67">>, <<"rev", "A">>, <<"shift", "A", "1">> }

WeatherNext ==
    \/ ChannelCore
    \/ screen_clicked(WeatherJobs)

WeatherSpec == InitWith(WeatherRadios) /\ [][WeatherNext]_vars

\* the job of the worker is a channel job for a side the radio has in
\* Weather mode
WeatherJob ==
    /\ JobKind \in ChannelJobs
    /\ radio.vm[SIDE_DICT_inv[Idx(w.act, 1)]] = "3"

\* a command that writes a channel record: FO, ME or CC with arguments
ChannelWrite(req) == req[1] \in {"FO", "ME", "CC"} /\ Len(req) > 2

C32_Step ==
    /\ WeatherJob => \A req \in SentNow : ~ChannelWrite(req)
    /\ (WeatherJob /\ pc.worker = "recv" /\ pc'.worker # "recv"
            /\ hist'.failed = hist.failed /\ hist'.unsupported = hist.unsupported)
        => /\ pc'.worker \in {"send", "loop"}
           /\ w.lab = "ga_rec" =>
                 /\ pc'.worker = "loop"
                 /\ hist'.finished = Append(hist.finished, w.id)

\* C32: a frequency, modulation, step, tone, tone_frequency, rev or shift job
\* for a side the radio has in Weather mode writes no channel record (no FO,
\* ME or CC with arguments); when the radio answers its two reads the job is
\* finished, not failed, after the second and the worker is back in its loop
\* for the next job.
C32_WeatherSkipped == [][C32_Step]_vars

\* two jobs for the side in Weather mode are finished, the second after the
\* first, and the worker is in its loop
C32_Witness ==
    /\ hist.start.vm["0"] = "3"
    /\ Len(hist.finished) = 2
    /\ hist.enq[hist.finished[1]][1] = "frequency"
    /\ hist.enq[hist.finished[2]][1] = "rev"
    /\ hist.failed = {} /\ hist.unsupported = {}
    /\ pc.worker = "loop"


\* ---------------------------------------------------------- the mode job
\* both sides in VFO mode; CTRL and PTT on side A, CTRL on side B and PTT on
\* side A, CTRL and PTT on side B
ModeRadios ==
    { Radio0("0", "0"), Radio0("1", "0"),
      [Radio0("1", "0") EXCEPT !.bc = <<"1", "1">>] }

\* the mode popups of the two sides
ModeChanges == { <<"mode", "A", "1">>, <<"mode", "A", "2">>, <<"mode", "B", "1">> }

ModeNext ==
    \/ ChannelCore
    \/ screen_clicked(ModeChanges)

ModeSpec == InitWith(ModeRadios) /\ [][ModeNext]_vars

\* the exchanges of a mode job, in their order
ModeOrder == { <<"", "mode_bc">>, <<"mode_bc", "mode_vm">>, <<"mode_vm", "last">> }

C33_Step ==
    LET before == hist.start.bc
        mode(act) == act # Refresh /\ act # <<>> /\ Head(act) = "mode"
    IN  hist'.unsupported = {} =>
           /\ mode(w'.act) =>
                 /\ w'.lab # w.lab => <<w.lab, w'.lab>> \in ModeOrder
                 /\ \A req \in SentNow :
                       CASE w'.lab = "mode_bc" -> req = <<"BC">>
                         [] w'.lab = "mode_vm" ->
                               req = <<"VM", SIDE_DICT_inv[Idx(w.act, 1)], Idx(w.act, 2)>>
                         [] w'.lab = "last" ->
                               /\ req = <<"BC", before[1], before[2]>>
                               /\ radio.vm[SIDE_DICT_inv[Idx(w.act, 1)]] = Idx(w.act, 2)
                         [] OTHER -> FALSE
           /\ (mode(w.act) /\ hist'.finished # hist.finished) =>
                 /\ w.lab = "last"
                 /\ radio'.bc = before

\* C33: a mode job that succeeds reads BC, sends VM <side>,<value> and then
\* writes BC with the CTRL and PTT sides it read, in that order; when the job
\* finishes CTRL and PTT are on the sides they were on before it, also when
\* the radio moved CTRL with the mode change.  (Success is taken as: the radio
\* has answered none of the job's commands with "?".)
C33_ModeRestoresCtrl == [][C33_Step]_vars

\* the BC write of a mode job for side A is on its way while the radio has
\* moved CTRL from side B to side A
C33_Moved ==
    /\ JobKind = "mode"
    /\ w.lab = "last"
    /\ pc.worker = "recv"
    /\ hist.start.bc = <<"1", "1">>
    /\ radio.bc = <<"0", "1">>

\* the mode job for side A finished on a radio with CTRL and PTT on side B:
\* side A is in Memory mode and CTRL and PTT are on side B
C33_Witness ==
    /\ hist.enq = << <<"mode", "A", "1">> >>
    /\ hist.finished = <<1>>
    /\ hist.start.bc = <<"1", "1">>
    /\ hist.start.vm["0"] = "0"
    /\ radio.vm["0"] = "1"
    /\ radio.bc = <<"1", "1">>
    /\ hist.unsupported = {}


\* the sides a refreshed RadioState marks with the mark m in its field f
Marked(st, f, m) == { s \in {"A", "B"} : st[s][f] = m }

\* C34: in the RadioState every completed update_dictionary has returned,
\* exactly one of the sides A and B is marked CTRL and at most one is marked
\* PTT (the radio's BC fields being 0 or 1).
C34_OneCtrlOnePtt ==
    \A i \in DOMAIN hist.commits :
       /\ Cardinality(Marked(hist.commits[i], "ctrl", "CTRL")) = 1
       /\ Cardinality(Marked(hist.commits[i], "ptt", "PTT")) <= 1

\* a refresh has completed on a radio with CTRL on side B and PTT on side A
C34_Witness ==
    \E i \in DOMAIN hist.commits :
       /\ hist.start.bc = <<"1", "0">>
       /\ Marked(hist.commits[i], "ctrl", "CTRL") = {"B"}
       /\ Marked(hist.commits[i], "ptt", "PTT") = {"A"}


\* --------------------------------------------- the XML-RPC procedures
\* the radio with the data-routing value d in MU field 38 and the power
\* level p on both sides
FacadeRadio(d, p) ==
    [Radio0("0", "0") EXCEPT !.mu = SetIdx(MU0, 38, d), !.pc = "0" :> p @@ "1" :> p]

\* data on side A, on side B, and split between the sides (2, 3); high,
\* medium and low power
FacadeRadios ==
    { FacadeRadio(d, "0") : d \in {"0", "1", "2", "3"} } \cup
    { FacadeRadio("0", p) : p \in {"1", "2"} }

\* the clients call once the panel has shown the first refresh
Shown == hist.commits # <<>>

\* the power popup of side A: low power
PowerJobs == { <<"power", "A", "2">> }

\* the procedures that read, and the power popup
GetterNext ==
    \/ ChannelCore
    \/ screen_clicked(PowerJobs)
    \/ Shown /\ getter
    \/ setter_return

GetterSpec == InitWith(FacadeRadios) /\ [][GetterNext]_vars

\* the procedures that read and those that put jobs
FacadeNext ==
    \/ ChannelCore
    \/ Shown /\ getter
    \/ Shown /\ set_mode
    \/ Shown /\ set_frequency
    \/ set_frequency_put
    \/ setter_return

\* data on side A with side A in Memory mode, data on side B, and data split
\* between the sides
DataRadios ==
    { [FacadeRadio("0", "0") EXCEPT !.vm["0"] = "1"] } \cup
    { FacadeRadio(d, "0") : d \in {"1", "2", "3"} }

FacadeSpec == InitWith(DataRadios) /\ [][FacadeNext]_vars

\* the watts of the power levels
LevelWatts == "L" :> "2" @@ "M" :> "20" @@ "H" :> "100"

\* the caller c gets the answer of the procedure name in this step
Answers(c, name) ==
    /\ rpc[c].pc = "idle"
    /\ rpc'[c].pc = "return"
    /\ rpc'[c].snap # <<>>
    /\ rpc'[c].snap[1] = name

C35_Step ==
    \A c \in Callers :
       (Answers(c, "get_power") /\ state.data_side # None) =>
          /\ rpc'[c].answer.reply = <<LevelWatts[SideField(state, "power")]>>
          /\ cmd_queue' = cmd_queue

\* C35 as stated: rig.get_power returns 2, 20 or 100 for the level Low, Medium
\* or High RadioState holds for the data side, and puts no job on the queue.
C35_PowerOfDataSide == [][C35_Step]_vars


\* ------------------------------------------------- the backlight job
\* the backlight amber (MU0) or green (MU1)
BacklightRadios == { Radio0("0", "0"), [Radio0("0", "0") EXCEPT !.mu = MU1] }

\* the backlight button of the panel
BacklightJobs == { <<"backlight">> }

BacklightNext ==
    \/ ChannelCore
    \/ screen_clicked(BacklightJobs)

BacklightSpec == InitWith(BacklightRadios) /\ [][BacklightNext]_vars

\* a backlight job, all of its commands answered, ends in this step
BacklightDone ==
    /\ JobKind = "backlight"
    /\ hist'.finished # hist.finished
    /\ hist'.unsupported = {}

C36_Step ==
    (BacklightDone /\ state.backlight # None) =>
        Idx(radio'.mu, 28) = (IF Idx(radio.mu, 28) = "1" THEN "0" ELSE "1")

\* C36 as stated: every backlight job (run once a refresh has stored a
\* colour) leaves MU field 28 at the colour opposite to the one the radio had,
\* so that two jobs run back to back return the backlight to its colour.
C36_BacklightToggles == [][C36_Step]_vars


\* C37 as stated: whatever data-routing value (0, 1, 2 or 3) the refresh has
\* read from MU field 38, no call of rig.get_vfo, rig.get_mode, rig.set_mode,
\* rig.set_frequency or rig.get_power ends in an exception.
C37_SideResolved ==
    \A c \in Callers :
       rpc[c].pc = "return" =>
          rpc[c].answer.reply \notin {<<"KeyError">>, <<"ValueError">>}


\* ------------------------------------------- rig.command, blank strings
\* a command the radio knows, the empty string and a blank
BlankLines == {"ID", "", " "}

BlankNext ==
    \/ ChannelCore
    \/ reply_queue_join
    \/ run_command_with(BlankLines)
    \/ run_command_get
    \/ run_command_task_done

BlankSpec == InitWith({Radio0("0", "0")}) /\ [][BlankNext]_vars

\* the worker thread has died of an exception nothing caught
WorkerDied == pc.worker = "crashed"

\* C38 as stated: whatever string is passed to rig.command, the worker thread
\* never dies of an unhandled exception (it puts the reply on the reply
\* queue, or fails the job and runs stop()).
C38_WorkerSurvives == ~WorkerDied


\* ------------------------------------------- the CAT PTT, two callers
CatPttNext ==
    \/ ChannelCore
    \/ CatPtt_put
    \/ CatPtt_assign

CatPttSpec == InitWith({Radio0("0", "0")}) /\ [][CatPttNext]_vars

\* the command queue has drained, the worker is idle in its loop and no
\* handler is inside on() or off()
Drained ==
    /\ cmd_queue = <<>>
    /\ pc.worker = "loop"
    /\ \A c \in Callers : rpc[c].pc = "idle"

\* the last cat_ptt command the worker has sent to the radio, "RX" if none
LastCatPtt ==
    IF hist.begun = <<>> THEN "RX"
    ELSE hist.enq[hist.begun[Len(hist.begun)]][2]

\* C39 as stated: with the CAT PTT driver, whenever the command queue has
\* drained and the worker is idle, value is 1 exactly when the last cat_ptt
\* command sent to the radio was TX, also with on() and off() called from
\* two handler threads at once.
C39_ValueFollowsRadio ==
    Drained => (ptt_active = 1 <=> LastCatPtt = "TX")


\* ------------------------- up and down in Memory mode after CTRL, PTT jobs
\* the CTRL and PTT buttons of the sides and the UP button of side A
StaleJobs ==
    { <<"ctrl", "A">>, <<"ctrl", "B">>, <<"ptt", "B">>, <<"up", "A">> }

StaleNext ==
    \/ ChannelCore
    \/ screen_clicked(StaleJobs)

StaleSpec == InitWith(MemoryUpDownRadios) /\ [][StaleNext]_vars

\* the BC record of the radio after the jobs jobs, all of them answered, from
\* the record bc: a ctrl job sets the CTRL side, a ptt job the PTT side, and
\* an up or down job leaves both where they were
RECURSIVE BcAfter(_, _)
BcAfter(bc, jobs) ==
    IF jobs = <<>> THEN bc
    ELSE LET job == Head(jobs)
         IN  BcAfter(CASE job[1] = "ctrl" -> <<SIDE_DICT_inv[job[2]], bc[2]>>
                       [] job[1] = "ptt" -> <<bc[1], SIDE_DICT_inv[job[2]]>>
                       [] OTHER -> bc,
                     Tail(jobs))

\* the UP or DW command of an up or down job for a side in Memory mode is on
\* its way
StepOnWire ==
    /\ JobKind \in {"up", "down"}
    /\ radio.vm[SIDE_DICT_inv[Idx(w.act, 1)]] = "1"
    /\ \E o \in outstanding : o.by = "worker" /\ o.req \in {<<"UP">>, <<"DW">>}

\* C40, first part: while the UP or DW command is on its way, every command
\* before it answered, the radio has CTRL on the side of the job
C40_CtrlOnSide ==
    (StepOnWire /\ hist.unsupported = {}) =>
        radio.bc[1] = SIDE_DICT_inv[Idx(w.act, 1)]

\* C40, second part: with the worker back in its loop and every command
\* answered, CTRL and PTT are where the jobs finished so far leave them, an
\* up or down job leaving them where they were
C40_CtrlPttKept ==
    (pc.worker = "loop" /\ hist.unsupported = {} /\ hist.failed = {}) =>
        radio.bc = BcAfter(hist.start.bc, [i \in DOMAIN hist.finished |->
                                              hist.enq[hist.finished[i]]])

\* C40 as stated: an up or down job for side S in Memory mode is sent with
\* CTRL on S and leaves CTRL and PTT on the sides the radio had them on
\* before the job, also when an earlier queued job changed CTRL or PTT and
\* no refresh has run since.
C40_AppliedToSide == C40_CtrlOnSide /\ C40_CtrlPttKept

====
